---- MODULE Spec2Model ----
(***************************************************************************)
(* Job-description analysis core of LLMployable: JobAnalyzer              *)
(* (src/analyzer/job_analyzer.py) and the JobCache repository it calls     *)
(* (src/database/repositories.py).                                         *)
(*                                                                         *)
(* A Python str is a sequence of one-character strings.  A call of         *)
(* re.search / re.findall is modelled by the backtracking search of the    *)
(* re module: for a start position, the sequence of end positions in the   *)
(* order the engine tries them (greedy quantifiers first try the longest   *)
(* repetition); the match is the first of them at the leftmost start.      *)
(***************************************************************************)
EXTENDS Integers, Sequences, FiniteSets, TLC

\* ------------------------------------------------------------ characters

LowerLetters ==
    {"a","b","c","d","e","f","g","h","i","j","k","l","m",
     "n","o","p","q","r","s","t","u","v","w","x","y","z"}

UpperLetters ==
    {"A","B","C","D","E","F","G","H","I","J","K","L","M",
     "N","O","P","Q","R","S","T","U","V","W","X","Y","Z"}

Digits == {"0","1","2","3","4","5","6","7","8","9"}

\* \w of the re module
WordChars == LowerLetters \cup UpperLetters \cup Digits \cup {"_"}

\* \s of the re module, and the characters str.strip() removes
Whitespace == {" ", "\n", "\t", "\r"}

Punctuation == {"+", "#", ".", "/", "-", ":", ",", "'"}

Chars == WordChars \cup Whitespace \cup Punctuation

NotNewline == Chars \ {"\n"}

ColonOrSpace == Whitespace \cup {":"}

\* str.lower(), character by character
UpperToLower ==
    ("A" :> "a") @@ ("B" :> "b") @@ ("C" :> "c") @@ ("D" :> "d") @@
    ("E" :> "e") @@ ("F" :> "f") @@ ("G" :> "g") @@ ("H" :> "h") @@
    ("I" :> "i") @@ ("J" :> "j") @@ ("K" :> "k") @@ ("L" :> "l") @@
    ("M" :> "m") @@ ("N" :> "n") @@ ("O" :> "o") @@ ("P" :> "p") @@
    ("Q" :> "q") @@ ("R" :> "r") @@ ("S" :> "s") @@ ("T" :> "t") @@
    ("U" :> "u") @@ ("V" :> "v") @@ ("W" :> "w") @@ ("X" :> "x") @@
    ("Y" :> "y") @@ ("Z" :> "z")

LowerChar(c) == IF c \in UpperLetters THEN UpperToLower[c] ELSE c

Lower(s) == [i \in 1..Len(s) |-> LowerChar(s[i])]

\* ------------------------------------------------------- str operations

Min(a, b) == IF a <= b THEN a ELSE b

\* s[i:j] with 1-based, end-exclusive positions
Slice(s, i, j) == SubSeq(s, i, j - 1)

\* the text `lit` stands at position i of s
LitAt(s, i, lit) ==
    /\ i >= 1
    /\ i + Len(lit) - 1 <= Len(s)
    /\ SubSeq(s, i, i + Len(lit) - 1) = lit

\* lit in s
Contains(s, lit) == \E i \in 1..(Len(s) + 1) : LitAt(s, i, lit)

\* s.find(lit), 1-based; 0 when absent
Find(s, lit) ==
    IF Contains(s, lit)
    THEN CHOOSE i \in 1..(Len(s) + 1) :
            /\ LitAt(s, i, lit)
            /\ \A j \in 1..(i - 1) : ~LitAt(s, j, lit)
    ELSE 0

\* first position >= i whose character is not in class C (Len(s)+1 at the end)
RECURSIVE RunEnd(_, _, _)
RunEnd(s, i, C) ==
    IF i <= Len(s) /\ s[i] \in C THEN RunEnd(s, i + 1, C) ELSE i

\* last position <= i whose character is not in class C (0 at the start)
RECURSIVE RunStart(_, _, _)
RunStart(s, i, C) ==
    IF i >= 1 /\ s[i] \in C THEN RunStart(s, i - 1, C) ELSE i

\* str.strip()
Strip(s) ==
    LET a == RunEnd(s, 1, Whitespace)
        b == RunStart(s, Len(s), Whitespace)
    IN  IF a > b THEN <<>> ELSE SubSeq(s, a, b)

\* str.split(sep) for a one-character separator
RECURSIVE Split(_, _)
Split(s, sep) ==
    LET e == RunEnd(s, 1, Chars \ {sep})
    IN  IF e > Len(s) THEN <<s>>
        ELSE <<Slice(s, 1, e)>> \o Split(SubSeq(s, e + 1, Len(s)), sep)

\* ------------------------------------------------- re: backtracking search
\* Every operator below returns the end positions of one pattern element
\* started at position p, in the order the engine tries them.

\* a literal
LitEnds(s, p, lit) == IF LitAt(s, p, lit) THEN <<p + Len(lit)>> ELSE <<>>

\* a literal under re.IGNORECASE
LitEndsIgnoreCase(s, p, lit) ==
    IF p + Len(lit) - 1 <= Len(s) /\ Lower(SubSeq(s, p, p + Len(lit) - 1)) = lit
    THEN <<p + Len(lit)>> ELSE <<>>

\* lit? (greedy: with the literal first, then without)
OptLitEnds(s, p, lit) == LitEnds(s, p, lit) \o <<p>>

\* [C]{n,} (greedy: the longest run first, down to n characters)
RepeatEnds(s, p, C, n) ==
    LET e == RunEnd(s, p, C)
    IN  IF e - p < n THEN <<>> ELSE [k \in 1..(e - p - n + 1) |-> e - k + 1]

\* [C]+ and [C]*
PlusEnds(s, p, C) == RepeatEnds(s, p, C, 1)
StarEnds(s, p, C) == RepeatEnds(s, p, C, 0)

\* \b at position p: exactly one of the characters around p is a word character
IsWordAt(s, i) == i >= 1 /\ i <= Len(s) /\ s[i] \in WordChars
WordBoundary(s, p) == IsWordAt(s, p - 1) # IsWordAt(s, p)
BoundaryEnds(s, p) == IF WordBoundary(s, p) THEN <<p>> ELSE <<>>

\* (?!\n)
NotBeforeNewlineEnds(s, p) == IF LitAt(s, p, <<"\n">>) THEN <<>> ELSE <<p>>

\* the positions of a text, the one after its last character included
Pos(s) == 1..(Len(s) + 1)

\* sequencing: continue with rest[q] from every end q in ps, in order
Then(ps, rest) ==
    LET cat[k \in 0..Len(ps)] ==
            IF k = 0 THEN <<>> ELSE cat[k - 1] \o rest[ps[k]]
    IN  cat[Len(ps)]

\* re.search: the leftmost start i at which ends[i] is not empty, with the
\* first end tried; NoMatch when there is none
NoMatch == [start |-> 0, end |-> 0]

Search(s, ends) ==
    LET starts == {i \in Pos(s) : ends[i] # <<>>}
    IN  IF starts = {} THEN NoMatch
        ELSE LET i == CHOOSE i \in starts : \A j \in starts : i <= j
             IN  [start |-> i, end |-> Head(ends[i])]

\* match.group(0)
Group0(s, m) == Slice(s, m.start, m.end)

\* ------------------------------------------------------------- taxonomy

\* JobAnalyzer.tech_keywords: categories and their tokens, in dict order
tech_keywords == <<
    [category |-> "languages", keywords |-> <<
        <<"p","y","t","h","o","n">>, <<"j","a","v","a">>, <<"j","a","v","a","s","c","r","i","p","t">>, <<"t","y","p","e","s","c","r","i","p","t">>, <<"c","+","+">>,
        <<"c","#">>, <<"g","o">>, <<"r","u","s","t">>, <<"r","u","b","y">>, <<"p","h","p">>, <<"s","w","i","f","t">>,
        <<"k","o","t","l","i","n">>, <<"s","c","a","l","a">>, <<"r">> >>],
    [category |-> "frameworks", keywords |-> <<
        <<"r","e","a","c","t">>, <<"a","n","g","u","l","a","r">>, <<"v","u","e">>, <<"d","j","a","n","g","o">>, <<"f","l","a","s","k">>,
        <<"s","p","r","i","n","g">>, <<"e","x","p","r","e","s","s">>, <<"f","a","s","t","a","p","i">>, <<"r","a","i","l","s">>, <<"l","a","r","a","v","e","l">>,
        <<".","n","e","t">>, <<"n","o","d","e",".","j","s">>, <<"n","o","d","e","j","s">> >>],
    [category |-> "databases", keywords |-> <<
        <<"s","q","l">>, <<"m","y","s","q","l">>, <<"p","o","s","t","g","r","e","s","q","l">>, <<"m","o","n","g","o","d","b">>, <<"r","e","d","i","s">>,
        <<"e","l","a","s","t","i","c","s","e","a","r","c","h">>, <<"d","y","n","a","m","o","d","b">>, <<"c","a","s","s","a","n","d","r","a">>, <<"o","r","a","c","l","e">> >>],
    [category |-> "cloud", keywords |-> <<
        <<"a","w","s">>, <<"a","z","u","r","e">>, <<"g","c","p">>, <<"g","o","o","g","l","e"," ","c","l","o","u","d">>, <<"d","o","c","k","e","r">>,
        <<"k","u","b","e","r","n","e","t","e","s">>, <<"k","8","s">>, <<"t","e","r","r","a","f","o","r","m">>, <<"a","n","s","i","b","l","e">> >>],
    [category |-> "tools", keywords |-> <<
        <<"g","i","t">>, <<"j","e","n","k","i","n","s">>, <<"c","i","/","c","d">>, <<"j","i","r","a">>, <<"a","g","i","l","e">>,
        <<"s","c","r","u","m">>, <<"l","i","n","u","x">> >>] >>

Range(f) == {f[i] : i \in DOMAIN f}

Categories == {tech_keywords[c].category : c \in DOMAIN tech_keywords}

KeywordsOf(cat) ==
    (CHOOSE e \in Range(tech_keywords) : e.category = cat).keywords

AllKeywords == UNION {Range(e.keywords) : e \in Range(tech_keywords)}

\* ------------------------------------------------------ _extract_skills

\* r"\b" + re.escape(keyword) + r"\b" started at position p: the pattern
\* has no repetition, hence at most one end
KeywordPatternEnds(s, p, keyword) ==
    IF /\ WordBoundary(s, p)
       /\ LitAt(s, p, keyword)
       /\ WordBoundary(s, p + Len(keyword))
    THEN <<p + Len(keyword)>> ELSE <<>>

\* re.search(pattern, job_desc_lower) is not None
KeywordFound(s, keyword) ==
    \E p \in Pos(s) : KeywordPatternEnds(s, p, keyword) # <<>>

\* the inner loop: the keywords of one category found in the text
FoundIn(s, keywords) == SelectSeq(keywords, LAMBDA k : KeywordFound(s, k))

\* StoreCategory without its `if found:` test
StoreCategoryAlways(found_skills, category, found) ==
    Append(found_skills, [category |-> category, found |-> found])

\* `if found:` a category is stored only with a non-empty list
StoreCategory(found_skills, category, found) ==
    IF found # <<>>
    THEN Append(found_skills, [category |-> category, found |-> found])
    ELSE found_skills

\* the dict found_skills, as the sequence of its items in insertion order
ExtractSkills(job_desc_lower) ==
    LET loop[c \in 0..Len(tech_keywords)] ==
            IF c = 0 THEN <<>>
            ELSE StoreCategory(loop[c - 1], tech_keywords[c].category,
                               FoundIn(job_desc_lower, tech_keywords[c].keywords))
    IN  loop[Len(tech_keywords)]

\* -------------------------------------------------- _extract_experience

NotSpecified == <<"N","o","t"," ","s","p","e","c","i","f","i","e","d">>

\* (?:of\s+)? (greedy: with the group first, then without)
OptOfEnds(s, p) ==
    Then(LitEnds(s, p, <<"o","f">>), [q \in Pos(s) |-> PlusEnds(s, q, Whitespace)])
    \o <<p>>

\* years?\s+(?:of\s+)?experience
YearsExperienceEnds(s, p) ==
    Then(Then(Then(Then(LitEnds(s, p, <<"y","e","a","r">>),
                        [q \in Pos(s) |-> OptLitEnds(s, q, <<"s">>)]),
                   [q \in Pos(s) |-> PlusEnds(s, q, Whitespace)]),
              [q \in Pos(s) |-> OptOfEnds(s, q)]),
         [q \in Pos(s) |-> LitEnds(s, q, <<"e","x","p","e","r","i","e","n","c","e">>)])

\* (\d+)\+?\s*years?\s+(?:of\s+)?experience
ExperiencePattern1(s, p) ==
    Then(Then(Then(PlusEnds(s, p, Digits),
                   [q \in Pos(s) |-> OptLitEnds(s, q, <<"+">>)]),
              [q \in Pos(s) |-> StarEnds(s, q, Whitespace)]),
         [q \in Pos(s) |-> YearsExperienceEnds(s, q)])

\* (\d+)-(\d+)\s*years?\s+(?:of\s+)?experience
ExperiencePattern2(s, p) ==
    Then(Then(Then(Then(PlusEnds(s, p, Digits),
                        [q \in Pos(s) |-> LitEnds(s, q, <<"-">>)]),
                   [q \in Pos(s) |-> PlusEnds(s, q, Digits)]),
              [q \in Pos(s) |-> StarEnds(s, q, Whitespace)]),
         [q \in Pos(s) |-> YearsExperienceEnds(s, q)])

\* minimum\s+(?:of\s+)?(\d+)\s*years?
ExperiencePattern3(s, p) ==
    Then(Then(Then(Then(Then(Then(LitEnds(s, p, <<"m","i","n","i","m","u","m">>),
                                  [q \in Pos(s) |-> PlusEnds(s, q, Whitespace)]),
                             [q \in Pos(s) |-> OptOfEnds(s, q)]),
                        [q \in Pos(s) |-> PlusEnds(s, q, Digits)]),
                   [q \in Pos(s) |-> StarEnds(s, q, Whitespace)]),
              [q \in Pos(s) |-> LitEnds(s, q, <<"y","e","a","r">>)]),
         [q \in Pos(s) |-> OptLitEnds(s, q, <<"s">>)])

\* re.search of the k-th entry of `patterns`
ExperienceSearch(s, k) ==
    CASE k = 1 -> Search(s, [p \in Pos(s) |-> ExperiencePattern1(s, p)])
      [] k = 2 -> Search(s, [p \in Pos(s) |-> ExperiencePattern2(s, p)])
      [] k = 3 -> Search(s, [p \in Pos(s) |-> ExperiencePattern3(s, p)])

\* the list `patterns` with the range pattern moved to the front
RangeFirstOrder == <<2, 1, 3>>

\* the order of the list `patterns`
PatternOrder == <<1, 2, 3>>

ExtractExperience(job_desc_lower) ==
    LET hits == SelectSeq(PatternOrder,
                          LAMBDA k : ExperienceSearch(job_desc_lower, k) # NoMatch)
    IN  IF hits = <<>> THEN NotSpecified
        ELSE Group0(job_desc_lower, ExperienceSearch(job_desc_lower, Head(hits)))

\* --------------------------------------------------- _extract_education

education_keywords ==
    << <<"b","a","c","h","e","l","o","r">>, <<"m","a","s","t","e","r">>, <<"p","h","d">>, <<"d","e","g","r","e","e">>, <<"b","s">>, <<"m","s">>, <<"m","b","a">> >>

\* the inner loop: the first sentence containing the keyword, stripped
FirstSentenceWith(sentences, keyword) ==
    Strip(Head(SelectSeq(sentences, LAMBDA x : Contains(x, keyword))))

\* ---------------------------------------------- education extraction (C6)

\* ExtractEducation with the keyword that stands first in the text winning,
\* instead of the first of the list
ExtractEducationLeftmost(job_desc_lower) ==
    LET present == SelectSeq(education_keywords,
                             LAMBDA k : Contains(job_desc_lower, k))
        first == CHOOSE k \in Range(present) :
                    \A other \in Range(present) :
                        Find(job_desc_lower, k) <= Find(job_desc_lower, other)
    IN  IF present = <<>> THEN NotSpecified
        ELSE FirstSentenceWith(Split(job_desc_lower, "."), first)

ExtractEducation(job_desc_lower) ==
    LET present == SelectSeq(education_keywords,
                             LAMBDA k : Contains(job_desc_lower, k))
    IN  IF present = <<>> THEN NotSpecified
        ELSE FirstSentenceWith(Split(job_desc_lower, "."), Head(present))

\* --------------------------------------------------- _identify_sections

\* section_patterns: the header alternatives of each section, in dict order
section_patterns == <<
    [name |-> "responsibilities",
     headers |-> << <<"r","e","s","p","o","n","s","i","b","i","l","i","t","i","e","s">>, <<"d","u","t","i","e","s">>, <<"r","o","l","e">> >>],
    [name |-> "requirements",
     headers |-> << <<"r","e","q","u","i","r","e","m","e","n","t","s">>, <<"q","u","a","l","i","f","i","c","a","t","i","o","n","s">> >>],
    [name |-> "nice_to_have",
     headers |-> << <<"n","i","c","e"," ","t","o"," ","h","a","v","e">>, <<"p","r","e","f","e","r","r","e","d">>, <<"b","o","n","u","s">> >>] >>

SectionNames == {section_patterns[k].name : k \in DOMAIN section_patterns}

HeadersOf(name) ==
    (CHOOSE e \in Range(section_patterns) : e.name = name).headers

\* (?:h1|h2|...) under re.IGNORECASE: the alternatives in their order
HeaderEnds(s, p, headers) ==
    LET alt[k \in 0..Len(headers)] ==
            IF k = 0 THEN <<>>
            ELSE alt[k - 1] \o LitEndsIgnoreCase(s, p, headers[k])
    IN  alt[Len(headers)]

\* MoreLinesEnds for (?:\n[^\n]*)*: a line break always continues the block
RECURSIVE MoreLinesThroughBlankEnds(_, _)
MoreLinesThroughBlankEnds(s, p) ==
    Then(Then(LitEnds(s, p, <<"\n">>),
              [q \in Pos(s) |-> <<RunEnd(s, q, NotNewline)>>]),
         [q \in Pos(s) |-> MoreLinesThroughBlankEnds(s, q)])
    \o <<p>>

\* (?:\n(?!\n)[^\n]+)* (greedy: one more line first, then stop)
RECURSIVE MoreLinesEnds(_, _)
MoreLinesEnds(s, p) ==
    Then(Then(Then(LitEnds(s, p, <<"\n">>),
                   [q \in Pos(s) |-> NotBeforeNewlineEnds(s, q)]),
              [q \in Pos(s) |-> PlusEnds(s, q, NotNewline)]),
         [q \in Pos(s) |-> MoreLinesEnds(s, q)])
    \o <<p>>

\* ([^\n]+(?:\n(?!\n)[^\n]+)*)
BlockEnds(s, p) ==
    Then(PlusEnds(s, p, NotNewline), [q \in Pos(s) |-> MoreLinesEnds(s, q)])

\* the whole pattern started at p: for every end of [:\s]* in the order the
\* engine tries them, the first (group 1 start, end) pair, if any
SectionPatternEnds(s, p, headers) ==
    Then(Then(HeaderEnds(s, p, headers),
              [q \in Pos(s) |-> StarEnds(s, q, ColonOrSpace)]),
         [q \in Pos(s) |-> IF BlockEnds(s, q) = <<>> THEN <<>>
                    ELSE << [g1 |-> q, end |-> Head(BlockEnds(s, q))] >>])

\* re.search(pattern, job_description, re.IGNORECASE | re.MULTILINE)
SectionSearch(s, headers) ==
    LET starts == {i \in 1..(Len(s) + 1) : SectionPatternEnds(s, i, headers) # <<>>}
    IN  IF starts = {} THEN NoMatch
        ELSE LET i == CHOOSE i \in starts : \A j \in starts : i <= j
             IN  Head(SectionPatternEnds(s, i, headers)) @@ [start |-> i]

\* match.group(1).strip()
SectionValue(s, m) == Strip(Slice(s, m.g1, m.end))

\* `if match:` only a matched section is stored
StoreSection(sections, name, s, m) ==
    IF m # NoMatch
    THEN Append(sections, [name |-> name, value |-> SectionValue(s, m)])
    ELSE sections

\* the dict sections, as the sequence of its items in insertion order
IdentifySections(job_description) ==
    LET loop[k \in 0..Len(section_patterns)] ==
            IF k = 0 THEN <<>>
            ELSE StoreSection(loop[k - 1], section_patterns[k].name, job_description,
                              SectionSearch(job_description, section_patterns[k].headers))
    IN  loop[Len(section_patterns)]

\* ---------------------------------------------------- _extract_keywords

common_words == {
    <<"t","h","e">>, <<"a">>, <<"a","n">>, <<"a","n","d">>, <<"o","r">>, <<"b","u","t">>, <<"i","n">>, <<"o","n">>, <<"a","t">>,
    <<"t","o">>, <<"f","o","r">>, <<"o","f">>, <<"w","i","t","h">>, <<"b","y">>, <<"f","r","o","m">>, <<"a","s">>, <<"i","s">>,
    <<"w","a","s">>, <<"a","r","e">>, <<"w","e","r","e">>, <<"b","e">>, <<"b","e","e","n">>, <<"b","e","i","n","g">>, <<"h","a","v","e">>,
    <<"h","a","s">>, <<"h","a","d">>, <<"d","o">>, <<"d","o","e","s">>, <<"d","i","d">>, <<"w","i","l","l">>, <<"w","o","u","l","d">>,
    <<"s","h","o","u","l","d">>, <<"c","o","u","l","d">>, <<"m","a","y">>, <<"m","i","g","h","t">>, <<"m","u","s","t">>, <<"c","a","n">> }

\* the shortest word the pattern accepts: {3,}
MinWordLen == 3

\* the slice [:20]
MaxKeywords == 20

\* WordPatternEnds for [a-z]{3,}, without the word boundaries
WordPatternNoBoundaryEnds(s, p) == RepeatEnds(s, p, LowerLetters, MinWordLen)

\* \b[a-z]{3,}\b started at position p
WordPatternEnds(s, p) ==
    Then(Then(BoundaryEnds(s, p),
              [q \in Pos(s) |-> RepeatEnds(s, q, LowerLetters, MinWordLen)]),
         [q \in Pos(s) |-> BoundaryEnds(s, q)])

\* re.findall: the non-overlapping matches from position p on, left to right
RECURSIVE FindAllWords(_, _)
FindAllWords(s, p) ==
    IF p > Len(s) THEN <<>>
    ELSE LET ends == WordPatternEnds(s, p)
         IN  IF ends = <<>> THEN FindAllWords(s, p + 1)
             ELSE <<Slice(s, p, Head(ends))>> \o FindAllWords(s, Head(ends))

\* word_freq[word] = word_freq.get(word, 0) + 1, the dict as its items in
\* insertion order
CountWord(word_freq, word) ==
    IF \E k \in DOMAIN word_freq : word_freq[k].word = word
    THEN [k \in DOMAIN word_freq |->
            IF word_freq[k].word = word
            THEN [word |-> word, freq |-> word_freq[k].freq + 1]
            ELSE word_freq[k]]
    ELSE Append(word_freq, [word |-> word, freq |-> 1])

\* the loop over words: `if word not in common_words`
WordFreq(s) ==
    LET words == FindAllWords(s, 1)
        loop[k \in 0..Len(words)] ==
            IF k = 0 THEN <<>>
            ELSE IF words[k] \notin common_words
                 THEN CountWord(loop[k - 1], words[k])
                 ELSE loop[k - 1]
    IN  loop[Len(words)]

\* InsertByFreq of a sort that is not stable: item goes before the items of
\* its own frequency
InsertByFreqUnstable(sorted, item) ==
    LET n == Cardinality({k \in DOMAIN sorted : sorted[k].freq > item.freq})
    IN  SubSeq(sorted, 1, n) \o <<item>> \o SubSeq(sorted, n + 1, Len(sorted))

\* one step of the stable sort: item goes after every item of the sorted
\* prefix whose frequency is at least its own
InsertByFreq(sorted, item) ==
    LET n == Cardinality({k \in DOMAIN sorted : sorted[k].freq >= item.freq})
    IN  SubSeq(sorted, 1, n) \o <<item>> \o SubSeq(sorted, n + 1, Len(sorted))

\* sorted(word_freq.items(), key=lambda x: x[1], reverse=True)
SortedKeywords(word_freq) ==
    LET loop[k \in 0..Len(word_freq)] ==
            IF k = 0 THEN <<>> ELSE InsertByFreq(loop[k - 1], word_freq[k])
    IN  loop[Len(word_freq)]

ExtractKeywords(job_desc_lower) ==
    LET sorted_keywords == SortedKeywords(WordFreq(job_desc_lower))
    IN  [k \in 1..Min(MaxKeywords, Len(sorted_keywords)) |-> sorted_keywords[k].word]

\* ------------------------------------------------------ CacheRepository

None == [none |-> TRUE]

\* the outcome of a call: a returned value, or an exception leaving the call
Returned(v) == [raised |-> FALSE, value |-> v]
Raised == [raised |-> TRUE, value |-> None]

\* default of the parameter ttl_hours
ttl_hours == 48

\* a digest that does not tell the letter cases of a text apart
Sha256Lower(job_description) == [sha256 |-> Lower(job_description)]

\* hashlib.sha256(job_description.encode()).hexdigest(): a digest of the exact
\* characters of the text, taken to be free of collisions
Sha256(job_description) == [sha256 |-> job_description]

\* JobCache.objects(job_description_hash=desc_hash)
ByHash(jobCache, desc_hash) ==
    {d \in jobCache : d.job_description_hash = desc_hash}

\* the query with expires_at__gte in place of expires_at__gt
ByHashNotYetExpired(jobCache, desc_hash, utcnow) ==
    {d \in ByHash(jobCache, desc_hash) : d.expires_at >= utcnow}

\* JobCache.objects(job_description_hash=desc_hash, expires_at__gt=utcnow)
ByHashUnexpired(jobCache, desc_hash, utcnow) ==
    {d \in ByHash(jobCache, desc_hash) : d.expires_at > utcnow}

\* CacheRepository.get_cached_job_analysis; every query raises while the
\* database cannot be reached
GetCachedJobAnalysis(jobCache, job_description, utcnow, connected) ==
    IF ~connected THEN Raised
    ELSE LET found == ByHashUnexpired(jobCache, Sha256(job_description), utcnow)
         IN  IF found # {}
             THEN Returned((CHOOSE d \in found : TRUE).analyzed_content)
             ELSE Returned(None)

\* CacheRepository.cache_job_analysis: the collection after the call
CacheJobAnalysis(jobCache, job_description, analyzed_content, utcnow, connected) ==
    IF ~connected THEN Raised
    ELSE LET desc_hash == Sha256(job_description)
             existing == ByHash(jobCache, desc_hash)
             kept == IF existing # {}
                     THEN jobCache \ {CHOOSE d \in existing : TRUE}
                     ELSE jobCache
         IN  Returned(kept \cup
                 {[job_description_hash |-> desc_hash,
                   job_description |-> job_description,
                   analyzed_content |-> analyzed_content,
                   expires_at |-> utcnow + ttl_hours]})

\* --------------------------------------------------- JobAnalyzer.analyze

\* lines 96-117: the profile computed from the text alone
ComputeProfile(job_description) ==
    LET job_desc_lower == Lower(job_description)
    IN  [original_description |-> job_description,
         skills |-> ExtractSkills(job_desc_lower),
         experience_required |-> ExtractExperience(job_desc_lower),
         education_required |-> ExtractEducation(job_desc_lower),
         sections |-> IdentifySections(job_description),
         keywords |-> ExtractKeywords(job_desc_lower)]

\* the cache lookup without its try: the exception leaves analyze
LookupOrRaise(got) == got

\* try: ... except Exception: pass, around the cache lookup
LookupOrPass(got) == IF got.raised THEN Returned(None) ELSE got

\* the cache store without its try: the exception leaves analyze
StoreOrRaise(put, jobCache) == put

\* try: ... except Exception: pass, around the cache store; the collection
\* is left as it was when the store raised
StoreOrPass(put, jobCache) == IF put.raised THEN Returned(jobCache) ELSE put

\* `if cached_result:` a stored profile is a dict of six keys, hence true
Truthy(v) == v # None

\* the call as a whole: what it returns (or raises), the collection after it,
\* and the debug line of the lookup; the database may be reachable at the
\* lookup and not at the store, or the other way round
AnalyzeCallAcross(jobCache, job_description, utcnow, atLookup, atStore) ==
    LET cached_result ==
            LookupOrPass(GetCachedJobAnalysis(jobCache, job_description,
                                              utcnow, atLookup))
        log == IF ~atLookup THEN "unavailable"
               ELSE IF Truthy(cached_result.value) THEN "hit" ELSE "miss"
    IN  IF cached_result.raised
        THEN [out |-> Raised, jobCache |-> jobCache, log |-> log]
        ELSE IF Truthy(cached_result.value)
        THEN [out |-> Returned(cached_result.value), jobCache |-> jobCache, log |-> log]
        ELSE LET result == ComputeProfile(job_description)
                 stored == StoreOrPass(CacheJobAnalysis(jobCache, job_description,
                                                        result, utcnow, atStore),
                                       jobCache)
             IN  IF stored.raised
                 THEN [out |-> Raised, jobCache |-> jobCache, log |-> log]
                 ELSE [out |-> Returned(result), jobCache |-> stored.value, log |-> log]

\* the call while the database stays as it is
AnalyzeCall(jobCache, job_description, utcnow, connected) ==
    AnalyzeCallAcross(jobCache, job_description, utcnow, connected, connected)

\* ---------------------------------------------------------------- state

VARIABLES
    text,       \* the job_description of the request in progress
    edits,      \* how many pieces the client has added to it
    pc,         \* "ready": analyze not yet called; "done": analyze has ended
    result,     \* what analyze returned or raised; None before the call
    cache,      \* the JobCache collection
    now,        \* datetime.utcnow(), in hours
    dbUp,       \* whether the database can be reached
    cacheLog,   \* the last debug line of the cache lookup
    repos,      \* the repositories handed to select_relevant_projects
    job_skills, \* the skills handed to it
    ranked,     \* what it returned or raised; None before the call
    threads,    \* the calls under way in the request threads of the server
    username,   \* the string handed to the username validators
    validated,  \* what validate_github_username did with it; None before
    is_valid,   \* what is_valid_github_username said of it; None before
    request,    \* the HTTP request that a handler of the web layer is given
    response,   \* how the handler answered it; None before
    analyzed,   \* the arguments with which the handler called analyze
    stages,     \* the pipeline stages the handler went through, and how each ended
    resumes,    \* the Resume collection
    applications, \* the JobApplication collection
    environ,    \* os.environ: the variables that the configuration reads
    classAttrs, \* the class attributes of Config and of its subclasses
    config,     \* the module attribute config.config; None until the module is loaded
    configPc,   \* "importing", "loaded", or "failed" when the import raised
    githubCache, \* the GitHubProfileCache collection
    scrapeWorld, \* the username of a scrape_profile call and what GitHub and the
                \* database do during it; None when no call was made
    scrapeOut,  \* what the call returned or raised, and whether it asked GitHub
    genCall,    \* the arguments of a call of ResumeGenerator.generate and what
                \* the Gemini client does during it; None when no call was made
    genOut,     \* what the call returned or raised
    users,      \* the User collection
    files,      \* the files of the temp directory: path -> what was written
    pdflatex    \* whether the pdflatex program is installed

analyzerVars == <<text, edits, pc, result, cache, now, dbUp, cacheLog>>

rankerVars == <<repos, job_skills, ranked>>

\* what a call of the analyzer leaves alone, and what a call of the ranker does
validatorVars == <<username, validated, is_valid>>

webVars == <<request, response, analyzed, stages, resumes, applications>>

configVars == <<environ, classAttrs, config, configPc>>

\* the collaborators of the web layer
scraperVars == <<githubCache, scrapeWorld, scrapeOut>>

generatorVars == <<genCall, genOut>>

accountVars == <<users>>

compilerVars == <<files, pdflatex>>

serviceVars == <<configVars, scraperVars, generatorVars, accountVars, compilerVars>>

exceptAnalyzer == <<rankerVars, threads, validatorVars, webVars, serviceVars>>

exceptRanker == <<analyzerVars, threads, validatorVars, webVars, serviceVars>>

exceptConfig ==
    <<analyzerVars, rankerVars, threads, validatorVars, webVars,
      scraperVars, generatorVars, accountVars, compilerVars>>

\* a call of the scraper reads the clock and the database of the analyzer
exceptScraper ==
    <<rankerVars, threads, validatorVars, webVars,
      configVars, generatorVars, accountVars, compilerVars>>

exceptGenerator ==
    <<analyzerVars, rankerVars, threads, validatorVars, webVars,
      configVars, scraperVars, accountVars, compilerVars>>

\* a step of a register request changes its thread and the users
exceptAccounts ==
    <<analyzerVars, rankerVars, validatorVars, webVars,
      configVars, scraperVars, generatorVars, compilerVars>>

\* a step of a compile call changes its thread and the files
exceptCompiler ==
    <<analyzerVars, rankerVars, validatorVars, webVars,
      configVars, scraperVars, generatorVars, accountVars>>

vars == <<analyzerVars, rankerVars, threads, validatorVars, webVars, serviceVars>>

\* how many pieces a client adds to a seed text
MaxEdits == 2

\* how many clock steps a run takes
MaxTicks == 3

\* one clock step: half the time to live
TickHours == ttl_hours \div 2

\* ----------------------------------------------------------------- actions

\* the client extends the text at its end
AppendPiece(Pieces) ==
    /\ pc = "ready"
    /\ edits < MaxEdits
    /\ \E p \in Pieces : text' = text \o p
    /\ edits' = edits + 1
    /\ UNCHANGED <<pc, result, cache, now, dbUp, cacheLog>>
    /\ UNCHANGED exceptAnalyzer

\* the client extends the text at its start
PrependPiece(Pieces) ==
    /\ pc = "ready"
    /\ edits < MaxEdits
    /\ \E p \in Pieces : text' = p \o text
    /\ edits' = edits + 1
    /\ UNCHANGED <<pc, result, cache, now, dbUp, cacheLog>>
    /\ UNCHANGED exceptAnalyzer

\* JobAnalyzer.analyze(text)
Analyze ==
    /\ pc = "ready"
    /\ \E call \in {AnalyzeCall(cache, text, now, dbUp)} :
          /\ result' = call.out
          /\ cache' = call.jobCache
          /\ cacheLog' = call.log
    /\ pc' = "done"
    /\ UNCHANGED <<text, edits, now, dbUp>>
    /\ UNCHANGED exceptAnalyzer

\* JobAnalyzer.analyze(text) while the database goes away, or comes back,
\* between the lookup and the store
AnalyzeAcrossOutage ==
    /\ pc = "ready"
    /\ \E call \in {AnalyzeCallAcross(cache, text, now, dbUp, ~dbUp)} :
          /\ result' = call.out
          /\ cache' = call.jobCache
          /\ cacheLog' = call.log
    /\ pc' = "done"
    /\ dbUp' = ~dbUp
    /\ UNCHANGED <<text, edits, now>>
    /\ UNCHANGED exceptAnalyzer

\* a new request arrives with one of the given texts
NewRequest(Texts) ==
    /\ pc = "done"
    /\ \E t \in Texts : text' = t
    /\ pc' = "ready"
    /\ result' = None
    /\ UNCHANGED <<edits, cache, now, dbUp, cacheLog>>
    /\ UNCHANGED exceptAnalyzer

\* time passes
Tick ==
    /\ now < MaxTicks * TickHours
    /\ now' = now + TickHours
    /\ UNCHANGED <<text, edits, pc, result, cache, dbUp, cacheLog>>
    /\ UNCHANGED exceptAnalyzer

\* the database goes away
DbFail ==
    /\ dbUp
    /\ dbUp' = FALSE
    /\ UNCHANGED <<text, edits, pc, result, cache, now, cacheLog>>
    /\ UNCHANGED exceptAnalyzer

\* the database comes back, with the collection as it was
DbRecover ==
    /\ ~dbUp
    /\ dbUp' = TRUE
    /\ UNCHANGED <<text, edits, pc, result, cache, now, cacheLog>>
    /\ UNCHANGED exceptAnalyzer

\* no call of the ranker is under way
RankerIdle ==
    /\ repos = <<>>
    /\ job_skills = <<>>
    /\ ranked = None

\* no request thread is running
NoThreads == threads = <<>>

\* no username is being validated
ValidatorIdle ==
    /\ username = <<>>
    /\ validated = None
    /\ is_valid = None

\* the configuration module is not looked at
ConfigIdle ==
    /\ environ = <<>>
    /\ classAttrs = <<>>
    /\ config = None
    /\ configPc = "importing"

\* scrape_profile is not called
ScraperIdle ==
    /\ githubCache = {}
    /\ scrapeWorld = None
    /\ scrapeOut = None

\* generate is not called
GeneratorIdle ==
    /\ genCall = None
    /\ genOut = None

\* nobody is registered
AccountsIdle == users = {}

\* the temp directory is empty
CompilerIdle ==
    /\ files = <<>>
    /\ pdflatex = TRUE

\* no collaborator of the web layer is looked at
ServicesIdle ==
    ConfigIdle /\ ScraperIdle /\ GeneratorIdle /\ AccountsIdle /\ CompilerIdle

\* no request has reached a handler
WebIdle ==
    /\ request = None
    /\ response = None
    /\ analyzed = <<>>
    /\ stages = <<>>
    /\ resumes = {}
    /\ applications = {}

\* the state of a fresh process that is handed one of the given texts
InitWith(Texts, Connected) ==
    /\ RankerIdle
    /\ NoThreads
    /\ ValidatorIdle
    /\ WebIdle
    /\ ServicesIdle
    /\ text \in Texts
    /\ edits = 0
    /\ pc = "ready"
    /\ result = None
    /\ cache = {}
    /\ now = 0
    /\ dbUp \in Connected
    /\ cacheLog = ""

\* ------------------------------------------------- skill matching (C1-C3)

\* str.upper(), for the texts a client may send
UpperChar(c) ==
    IF c \in LowerLetters THEN CHOOSE u \in UpperLetters : UpperToLower[u] = c ELSE c

Upper(s) == [i \in 1..Len(s) |-> UpperChar(s[i])]

\* texts of one taxonomy token, in lower and in upper case, and the empty text
SkillSeeds == {<<>>} \cup AllKeywords \cup {Upper(k) : k \in AllKeywords}

\* what a client puts before or after it: a blank, a letter, another token
SkillPieces == { <<" ">>, <<"x">>, <<"g","o">> }

InitSkills == InitWith(SkillSeeds, {FALSE})

NextSkills ==
    \/ AppendPiece(SkillPieces)
    \/ PrependPiece(SkillPieces)
    \/ Analyze

SpecSkills == InitSkills /\ [][NextSkills]_vars

Done == pc = "done" /\ ~result.raised

\* the dict lookup skills.get(category, [])
Listed(skills, category) ==
    IF \E i \in DOMAIN skills : skills[i].category = category
    THEN Range((CHOOSE e \in Range(skills) : e.category = category).found)
    ELSE {}

\* the positions of t at which keyword stands, whatever the letter case
Occurrences(t, keyword) ==
    LET lowered == Lower(t) IN {i \in 1..Len(t) : LitAt(lowered, i, keyword)}

\* keyword stands at i between blanks or the ends of the text
Standalone(t, i, keyword) ==
    /\ i = 1 \/ t[i - 1] \in Whitespace
    /\ i + Len(keyword) = Len(t) + 1 \/ t[i + Len(keyword)] \in Whitespace

\* keyword stands at i with a letter, digit or underscore right before or
\* right after it: it is part of a longer word
InsideWord(t, i, keyword) ==
    IsWordAt(t, i - 1) \/ IsWordAt(t, i + Len(keyword))

\* C1: every taxonomy token that occurs in the text as a standalone word, in
\* any letter case, is listed in lower case under its category.
C1_StandaloneRecorded ==
    Done => \A cat \in Categories : \A k \in Range(KeywordsOf(cat)) :
                (\E i \in Occurrences(text, k) : Standalone(text, i, k))
                    => k \in Listed(result.value.skills, cat)

\* C2: a taxonomy token that occurs in the text only inside longer words is
\* not listed.
C2_NoMatchInsideWord ==
    Done => \A cat \in Categories : \A k \in Range(KeywordsOf(cat)) :
                (/\ Occurrences(text, k) # {}
                 /\ \A i \in Occurrences(text, k) : InsideWord(text, i, k))
                    => k \notin Listed(result.value.skills, cat)

IndexIn(seq, x) == CHOOSE i \in DOMAIN seq : seq[i] = x

CategoryIndex(cat) == CHOOSE c \in DOMAIN tech_keywords : tech_keywords[c].category = cat

\* C3: the skills mapping lists only taxonomy categories, each with a
\* non-empty list of tokens of that category, categories and tokens in
\* taxonomy order and none twice.
C3_SkillsShape ==
    Done => LET skills == result.value.skills
            IN  /\ \A i \in DOMAIN skills :
                    /\ skills[i].category \in Categories
                    /\ skills[i].found # <<>>
                    /\ \A j \in DOMAIN skills[i].found :
                          skills[i].found[j] \in Range(KeywordsOf(skills[i].category))
                    /\ \A j, k \in DOMAIN skills[i].found :
                          j < k => IndexIn(KeywordsOf(skills[i].category), skills[i].found[j])
                                   < IndexIn(KeywordsOf(skills[i].category), skills[i].found[k])
                /\ \A i, j \in DOMAIN skills :
                      i < j => CategoryIndex(skills[i].category)
                               < CategoryIndex(skills[j].category)

\* a text naming two tokens of one category against their taxonomy order has
\* been analyzed
C3_Witness ==
    /\ Done
    /\ \E i \in DOMAIN result.value.skills :
          /\ Len(result.value.skills[i].found) >= 2
          /\ Find(Lower(text), result.value.skills[i].found[2])
             < Find(Lower(text), result.value.skills[i].found[1])

\* --------------------------------------------- experience extraction (C5)

\* the language of a pattern, apart from any search order: the set of
\* positions at which an element started at some position of P can end
LitAfter(s, P, lit) == {p + Len(lit) : p \in {q \in P : LitAt(s, q, lit)}}

OptLitAfter(s, P, lit) == P \cup LitAfter(s, P, lit)

PlusAfter(s, P, C) == UNION {(p + 1)..RunEnd(s, p, C) : p \in P}

StarAfter(s, P, C) == P \cup PlusAfter(s, P, C)

\* years [of] experience, with "year" for "years" and any blanks
YearsExperienceAfter(s, P) ==
    LET years == PlusAfter(s, OptLitAfter(s, LitAfter(s, P, <<"y","e","a","r">>), <<"s">>),
                           Whitespace)
        of == PlusAfter(s, LitAfter(s, years, <<"o","f">>), Whitespace)
    IN  LitAfter(s, years \cup of, <<"e","x","p","e","r","i","e","n","c","e">>)

\* the ends of the phrasings of pattern k that start at position i
PhrasingEnds(s, k, i) ==
    CASE k = 1 ->
            YearsExperienceAfter(s,
                StarAfter(s, OptLitAfter(s, PlusAfter(s, {i}, Digits), <<"+">>),
                          Whitespace))
      [] k = 2 ->
            YearsExperienceAfter(s,
                StarAfter(s, PlusAfter(s, LitAfter(s, PlusAfter(s, {i}, Digits), <<"-">>),
                                       Digits),
                          Whitespace))
      [] k = 3 ->
            LET min == PlusAfter(s, LitAfter(s, {i}, <<"m","i","n","i","m","u","m">>), Whitespace)
                of == PlusAfter(s, LitAfter(s, min, <<"o","f">>), Whitespace)
                n == StarAfter(s, PlusAfter(s, min \cup of, Digits), Whitespace)
            IN  OptLitAfter(s, LitAfter(s, n, <<"y","e","a","r">>), <<"s">>)

\* the positions at which a phrasing of pattern k starts
PhrasingStarts(s, k) == {i \in Pos(s) : PhrasingEnds(s, k, i) # {}}

SetMin(S) == CHOOSE x \in S : \A y \in S : x <= y

ExperienceSeeds == {
    <<>>,
    <<"5","+"," ","y","e","a","r","s"," ","o","f"," ","e","x","p","e","r","i","e","n","c","e">>,
    <<"5"," ","Y","e","a","r","s"," ","E","x","p","e","r","i","e","n","c","e">>,
    <<"5","-","7"," ","y","e","a","r","s"," ","o","f"," ","e","x","p","e","r","i","e","n","c","e">>,
    <<"m","i","n","i","m","u","m"," ","o","f"," ","3"," ","y","e","a","r","s">>,
    <<"M","i","n","i","m","u","m"," ","3"," ","y","e","a","r">>,
    <<"1","0","+","y","e","a","r","s"," "," ","o","f","\n","e","x","p","e","r","i","e","n","c","e">>,
    <<"3"," ","y","r","s"," ","o","f"," ","e","x","p","e","r","i","e","n","c","e">>,
    <<"2","-","4"," ","y","e","a","r"," ","e","x","p","e","r","i","e","n","c","e",","," ","m","i","n","i","m","u","m"," ","1"," ","y","e","a","r","s">> }

ExperiencePieces == {
    <<" ">>, <<"1">>, <<"m","i","n","i","m","u","m"," ","2"," ","y","e","a","r","s"," ">>, <<" ","8"," ","y","e","a","r","s"," ","o","f"," ","e","x","p","e","r","i","e","n","c","e">> }

InitExperience == InitWith(ExperienceSeeds, {FALSE})

NextExperience ==
    \/ AppendPiece(ExperiencePieces)
    \/ PrependPiece(ExperiencePieces)
    \/ Analyze

SpecExperience == InitExperience /\ [][NextExperience]_vars

SentenceAround(s, i) ==
    Slice(s, RunStart(s, i, Chars \ {"."}) + 1, RunEnd(s, i, Chars \ {"."}))

\* the education keywords that occur in the lowercased text, anywhere
KeywordsPresent(s) == {k \in DOMAIN education_keywords :
                          Contains(s, education_keywords[k])}

EducationSeeds == {
    <<>>,
    <<"B","a","c","h","e","l","o","r","'","s"," ","d","e","g","r","e","e"," ","r","e","q","u","i","r","e","d","."," ","M","S"," ","p","r","e","f","e","r","r","e","d">>,
    <<"p","h","d"," ","a"," ","p","l","u","s",".","M","a","s","t","e","r"," ","o","r"," "," ","b","a","c","h","e","l","o","r","."," ">>,
    <<"w","e"," ","b","u","i","l","d"," ","s","y","s","t","e","m","s","."," ","g","r","e","a","t"," ","j","o","b","s">>,
    <<"n","o"," ","s","c","h","o","o","l","i","n","g"," ","a","s","k","e","d">>,
    <<"x",".","\n"," ","m","b","a"," ","\t",".","y">> }

EducationPieces == { <<".">>, <<" ">>, <<"d","e","g","r","e","e">>, <<"M","S">>, <<"M","a","s","t","e","r">> }

InitEducation == InitWith(EducationSeeds, {FALSE})

NextEducation ==
    \/ AppendPiece(EducationPieces)
    \/ PrependPiece(EducationPieces)
    \/ Analyze

SpecEducation == InitEducation /\ [][NextEducation]_vars

\* C6: the first keyword of the list bachelor, master, phd, degree, bs, ms,
\* mba that occurs anywhere in the lowercased text decides; the summary is
\* the trimmed sentence, between periods, around that keyword's first
\* occurrence; it is "Not specified" exactly when no keyword occurs, and
\* otherwise contains an education keyword.
C6_EducationSentence ==
    Done => LET s == Lower(text)
                education == result.value.education_required
            IN  IF KeywordsPresent(s) = {}
                THEN education = NotSpecified
                ELSE LET keyword == education_keywords[SetMin(KeywordsPresent(s))]
                     IN  /\ education = Strip(SentenceAround(s, Find(s, keyword)))
                         /\ education # NotSpecified
                         /\ Contains(education, keyword)

\* a text whose deciding keyword stands after another education keyword, in
\* a later sentence, has been analyzed
C6_Witness ==
    /\ Done
    /\ LET s == Lower(text)
       IN  /\ KeywordsPresent(s) # {}
           /\ \E k \in KeywordsPresent(s) :
                 /\ Find(s, education_keywords[k])
                    < Find(s, education_keywords[SetMin(KeywordsPresent(s))])
                 /\ ~Contains(result.value.education_required, education_keywords[k])

\* -------------------------------------------- section identification (C9)

\* the dict lookup sections[name]
SectionOf(sections, name) ==
    (CHOOSE e \in Range(sections) : e.name = name).value

SectionKeys(sections) == {sections[k].name : k \in DOMAIN sections}

\* the positions of t at which one of the header words stands, in any case
HeaderStarts(t, headers) ==
    LET s == Lower(t)
    IN  {i \in 1..Len(t) : \E h \in Range(headers) : LitAt(s, i, h)}

\* the position right after the header word that stands at i
HeaderEndAt(t, i, headers) ==
    i + Len(CHOOSE h \in Range(headers) : LitAt(Lower(t), i, h))

\* where the block after a header ending at position e can begin: at the
\* last character that is no line break among the colons and blanks that
\* follow the header and the character after them
BlockStarts(t, e) ==
    {q \in e..Min(RunEnd(t, e, ColonOrSpace), Len(t)) : t[q] # "\n"}

SetMax(S) == CHOOSE x \in S : \A y \in S : x >= y

\* the end of the run of non-empty lines that begins at g: the end of the
\* text, or the first line break followed by a line break or by nothing
BlockEnd(t, g) ==
    SetMin({e \in (g + 1)..(Len(t) + 1) :
               \/ e = Len(t) + 1
               \/ t[e] = "\n" /\ (e = Len(t) \/ t[e + 1] = "\n")})

SectionSeeds == {
    <<>>,
    <<"R","e","q","u","i","r","e","m","e","n","t","s",":","\n","-"," ","P","y","t","h","o","n","\n","-"," ","G","o","\n","\n","B","o","n","u","s",":"," ","x">>,
    <<"R","o","l","e",":"," ","b","u","i","l","d","\n","D","u","t","i","e","s",":"," ","r","u","n","\n","\n","\n","r","o","l","e",":"," ","n","o","n","e">>,
    <<"R","E","S","P","O","N","S","I","B","I","L","I","T","I","E","S","\n","\n","l","e","a","d","\n","t","e","a","m"," ","\n","\n","q","u","a","l","i","f","i","c","a","t","i","o","n","s">>,
    <<"t","h","e"," ","c","o","n","t","r","o","l","l","e","r",","," ","p","r","e","f","e","r","r","e","d",":",":">>,
    <<"N","i","c","e"," ","t","o"," ","h","a","v","e",":"," ","\n","\n">>,
    <<"d","u","t","i","e","s","\t","b","o","n","u","s",":","\n">> }

SectionPieces == { <<"\n">>, <<" ">>, <<"x">>, <<"r","o","l","e">> }

InitSections == InitWith(SectionSeeds, {FALSE})

NextSections ==
    \/ AppendPiece(SectionPieces)
    \/ PrependPiece(SectionPieces)
    \/ Analyze

SpecSections == InitSections /\ [][NextSections]_vars

\* C9: a section is present only if one of its header words occurs in the
\* text, in any letter case; it is then taken from the first place a header
\* word occurs: its value is the trimmed run of non-empty lines that follows
\* the header word and the colons and blanks after it, and holds no empty
\* line; a section whose header words do not occur is left out.
C9_SectionFromFirstHeader ==
    Done => \A name \in SectionNames :
        LET sections == result.value.sections
            headers == HeadersOf(name)
            starts == HeaderStarts(text, headers)
        IN  IF starts = {}
            THEN name \notin SectionKeys(sections)
            ELSE LET begin == BlockStarts(text, HeaderEndAt(text, SetMin(starts), headers))
                 IN  /\ name \in SectionKeys(sections) <=> begin # {}
                     /\ name \in SectionKeys(sections) =>
                           LET value == SectionOf(sections, name)
                               g == SetMax(begin)
                           IN  /\ value = Strip(Slice(text, g, BlockEnd(text, g)))
                               /\ ~Contains(value, <<"\n", "\n">>)
                               /\ value = Strip(value)

\* a text with two places for a header word and an empty line after the first
\* block has been analyzed, and the section holds several lines
C9_Witness ==
    /\ Done
    /\ \E name \in SectionKeys(result.value.sections) :
          /\ Cardinality(HeaderStarts(text, HeadersOf(name))) >= 2
          /\ Contains(SectionOf(result.value.sections, name), <<"\n">>)
          /\ Contains(text, <<"\n", "\n">>)
          /\ Len(SectionOf(result.value.sections, name)) + 6 < Len(text)

\* ------------------------------------------------ keyword list (C7, C8)

\* the positions at which a maximal run of at least three letters begins
LetterRunStarts(s) ==
    {i \in 1..Len(s) :
        /\ s[i] \in LowerLetters
        /\ i = 1 \/ s[i - 1] \notin LowerLetters
        /\ RunEnd(s, i, LowerLetters) - i >= MinWordLen}

\* the run of letters that begins at i
WordAt(s, i) == Slice(s, i, RunEnd(s, i, LowerLetters))

\* those of the runs that stand between characters that are no letter, digit
\* or underscore, or at an end of the text
WholeWordStarts(s) ==
    {i \in LetterRunStarts(s) :
        ~IsWordAt(s, i - 1) /\ ~IsWordAt(s, RunEnd(s, i, LowerLetters))}

\* how often word stands at one of the given places, stopwords never
TimesAt(s, starts, word) ==
    IF word \in common_words THEN 0
    ELSE Cardinality({i \in starts : WordAt(s, i) = word})

\* the tally of the code: word_freq.get(word, 0)
Tally(word_freq, word) ==
    IF \E k \in DOMAIN word_freq : word_freq[k].word = word
    THEN (CHOOSE e \in Range(word_freq) : e.word = word).freq
    ELSE 0

TalliedWords(word_freq) == {word_freq[k].word : k \in DOMAIN word_freq}

KeywordSeeds == {
    <<>>,
    <<"B","u","i","l","d"," ","w","e","b"," ","a","p","p",","," ","a","p","i",","," ","s","d","k"," ","a","n","d"," ","c","l","i","."," ","O","w","n"," ","d","e","v"," ","o","p","s",","," ","l","o","g",","," ","t","a","g",","," ","r","u","n",","," ","f","i","x",","," ","t","e","s","t",","," ","s","h","i","p",","," ","p","l","a","n","."," ","U","s","e"," ","g","i","t",","," ","a","w","s",","," ","g","c","p",","," ","s","q","l",","," ","p","h","p",","," ","v","u","e",","," ","c","s","s">>,
    <<"T","h","e"," ","t","e","a","m"," ","a","n","d"," ","t","h","e"," ","c","o","d","e",":"," ","t","e","a","m"," ","b","u","i","l","d","s"," ","c","o","d","e",","," ","c","o","d","e"," ","s","h","i","p","s">>,
    <<"p","y","t","h","o","n","3"," ","a","n","d"," ","p","y","t","h","o","n","_"," ","o","r"," ","P","y","t","h","o","n">>,
    <<"g","o"," ","t","o"," ","R",","," ","b","e"," ","o","n"," ","i","t">> }

KeywordPieces == { <<" ">>, <<"3">>, <<"c","s","s">>, <<"t","h","e"," ">> }

InitKeywords == InitWith(KeywordSeeds, {FALSE})

NextKeywords ==
    \/ AppendPiece(KeywordPieces)
    \/ PrependPiece(KeywordPieces)
    \/ Analyze

SpecKeywords == InitKeywords /\ [][NextKeywords]_vars

\* word a comes before word b: it is more frequent, or as frequent and met
\* first in the text (starts: the places of the counted words)
RanksBefore(s, starts, a, b) ==
    \/ TimesAt(s, starts, a) > TimesAt(s, starts, b)
    \/ /\ TimesAt(s, starts, a) = TimesAt(s, starts, b)
       /\ SetMin({i \in starts : WordAt(s, i) = a})
            < SetMin({i \in starts : WordAt(s, i) = b})

\* C7: the keywords are at most 20 words of the text, none a stopword, none
\* twice, the more frequent first and words of equal frequency in the order
\* they are first met; a counted word that is left out ranks after all 20.
\* (RanksBefore is a strict total order of the counted words, so it is
\* stated of neighbours and of the last keyword.)
C7_KeywordOrder ==
    Done => LET s == Lower(text)
                keywords == result.value.keywords
                starts == WholeWordStarts(s)
                counted == {WordAt(s, i) : i \in starts} \ common_words
            IN  /\ Len(keywords) <= MaxKeywords
                /\ \A k \in DOMAIN keywords : keywords[k] \in counted
                /\ \A k \in 1..(Len(keywords) - 1) :
                      RanksBefore(s, starts, keywords[k], keywords[k + 1])
                /\ \A w \in counted \ Range(keywords) :
                      /\ Len(keywords) = MaxKeywords
                      /\ RanksBefore(s, starts, keywords[MaxKeywords], w)

\* a text of more than 20 counted words, one of them repeated, has been
\* analyzed
C7_Witness ==
    /\ Done
    /\ Len(result.value.keywords) = MaxKeywords
    /\ LET s == Lower(text)
       IN  /\ Cardinality({WordAt(s, i) : i \in WholeWordStarts(s)} \ common_words)
                > MaxKeywords
           /\ TimesAt(s, WholeWordStarts(s), result.value.keywords[1]) >= 2
           /\ TimesAt(s, WholeWordStarts(s), result.value.keywords[2]) = 1

\* C8 as stated: the words tallied are the runs of three or more letters of
\* the lowercased text that are no stopwords, each run counted, also next to
\* a digit or an underscore.
C8_EveryLetterRunCounted ==
    Done => LET s == Lower(text)
                word_freq == WordFreq(s)
                runs == LetterRunStarts(s)
            IN  \A w \in TalliedWords(word_freq) \cup {WordAt(s, i) : i \in runs} :
                    Tally(word_freq, w) = TimesAt(s, runs, w)

\* C8 as amended: the words tallied are the runs of three or more letters a-z
\* of the lowercased text that stand between characters that are no letter,
\* digit or underscore (or at an end of the text) and are no stopwords, each
\* such run counted once; a run next to a digit or an underscore is not
\* counted, and no word shorter than three letters is.
C8_WholeWordsCounted ==
    Done => LET s == Lower(text)
                word_freq == WordFreq(s)
                runs == LetterRunStarts(s)
                whole == WholeWordStarts(s)
            IN  /\ \A w \in TalliedWords(word_freq) \cup {WordAt(s, i) : i \in runs} :
                        Tally(word_freq, w) = TimesAt(s, whole, w)
                /\ \A w \in TalliedWords(word_freq) :
                        Len(w) >= MinWordLen /\ Tally(word_freq, w) >= 1
                /\ \A k \in DOMAIN result.value.keywords :
                        result.value.keywords[k] \in TalliedWords(word_freq)

\* a text with a run of letters next to a digit, and the same word standing
\* alone elsewhere, has been analyzed
C8_Witness ==
    /\ Done
    /\ LET s == Lower(text)
       IN  \E i \in LetterRunStarts(s) \ WholeWordStarts(s) :
              /\ IsWordAt(s, RunEnd(s, i, LowerLetters))
              /\ Tally(WordFreq(s), WordAt(s, i)) = 1

\* ------------------------------- requests against the cache (C4, C10)

\* the job descriptions that clients send, some of them more than once
Requests ==
    { <<>>, <<"R","o","l","e",":"," ","G","o",","," ","B","S">>, <<"r","o","l","e",":"," ","g","o",","," ","b","s">> }

Init == InitWith(Requests, BOOLEAN)

Next ==
    \/ Analyze
    \/ AnalyzeAcrossOutage
    \/ NewRequest(Requests)
    \/ Tick
    \/ DbFail
    \/ DbRecover

Spec == Init /\ [][Next]_vars

\* the profile of the empty text
EmptyProfile ==
    [original_description |-> <<>>,
     skills |-> <<>>,
     experience_required |-> NotSpecified,
     education_required |-> NotSpecified,
     sections |-> <<>>,
     keywords |-> <<>>]

\* C4: analyze never raises, whether the cache answers, misses or cannot be
\* reached; it echoes the text it was given, and for the empty text it
\* returns no skills, "Not specified" for experience and for education, no
\* sections and no keywords.
C4_AnalyzeTotal ==
    pc = "done" =>
        /\ ~result.raised
        /\ result.value.original_description = text
        /\ text = <<>> => result.value = EmptyProfile

\* the empty text was analyzed while the database could not be reached
C4_Witness ==
    /\ Done
    /\ text = <<>>
    /\ cacheLog = "unavailable"

\* the profile that the extraction rules alone give for each request
PureProfile == [t \in Requests |-> ComputeProfile(t)]

\* C10: whatever calls went before and whatever the cache holds (nothing, an
\* entry still valid, an expired entry, or no database at all), analyze
\* returns the profile that the extraction rules alone give for its text, and
\* every entry of the cache holds the profile of the text it was stored for.
C10_CacheTransparent ==
    /\ pc = "done" => result = Returned(PureProfile[text])
    /\ \A d \in cache :
          /\ d.job_description_hash = Sha256(d.job_description)
          /\ d.analyzed_content = PureProfile[d.job_description]

\* a call answered from the cache while an entry of another text has expired
C10_Witness ==
    /\ Done
    /\ cacheLog = "hit"
    /\ \E d \in cache : d.job_description # text /\ d.expires_at <= now

\* ---------------------------------- cache failure and expiry (C11, C12)

\* a call of analyze: the step from "ready" to "done"
AnalyzeStep == pc = "ready" /\ pc' = "done"

\* the entries stored for a text
EntriesOf(jobCache, job_description) ==
    {d \in jobCache : d.job_description = job_description}

\* the entry that a store at time utcnow writes for a text
FreshEntry(job_description, utcnow) ==
    [job_description_hash |-> Sha256(job_description),
     job_description |-> job_description,
     analyzed_content |-> PureProfile[job_description],
     expires_at |-> utcnow + ttl_hours]

\* C11: when the cache lookup raises, analyze computes the profile (and
\* stores it if the database is back by then); when the lookup misses and the
\* store raises, analyze returns the computed profile and the collection is
\* as it was; no call raises.
C11_CacheFailureContinues ==
    [][AnalyzeStep =>
          /\ ~result'.raised
          /\ ~dbUp =>
                /\ cacheLog' = "unavailable"
                /\ result' = Returned(PureProfile[text])
                /\ dbUp' => FreshEntry(text, now) \in cache'
                /\ ~dbUp' => cache' = cache
          /\ (dbUp /\ ~dbUp' /\ cacheLog' = "miss") =>
                /\ result' = Returned(PureProfile[text])
                /\ cache' = cache]_vars

\* a call whose lookup missed and whose store raised: nothing is stored for
\* its text, and it returned
C11_Witness ==
    /\ Done
    /\ cacheLog = "miss"
    /\ ~dbUp
    /\ EntriesOf(cache, text) = {}

GITHUB_MAX_TOP_PROJECTS == 5

\* a key that the dict does not have
Missing == [missing |-> TRUE]

\* a value of a dict that is not None
Some(v) == [some |-> v]

\* a list, as isinstance(skills, list) tells it from any other value
List(l) == [list |-> l]

IsList(v) == "list" \in DOMAIN v

\* job_skills: a dict, as the sequence of its items
Dict(items) == [dict |-> items]

\* repo.get(key, default)
Get(repo, key, default) == IF repo[key] = Missing THEN default ELSE repo[key]

\* `x or ""`: None and the empty string give the empty string
OrEmpty(x) == IF x = None \/ x = Some(<<>>) THEN Some(<<>>) ELSE x

\* lines 179-182: the lowercased skills of every category that holds a list
AllRequiredSkills(skills_by_category) ==
    UNION {{Lower(entry.skills.list[k]) : k \in DOMAIN entry.skills.list} :
           entry \in {e \in Range(skills_by_category.dict) : IsList(e.skills)}}

\* repo.get("name", "").lower(): None has no lower()
RepoName(repo) ==
    LET name == Get(repo, "name", Some(<<>>))
    IN  IF name = None THEN Raised ELSE Returned(Lower(name.some))

\* (repo.get("description") or "").lower()
RepoDesc(repo) == Lower(OrEmpty(Get(repo, "description", None)).some)

\* (repo.get("language") or "").lower()
RepoLang(repo) == Lower(OrEmpty(Get(repo, "language", None)).some)

\* [t.lower() for t in repo.get("topics", [])]: None cannot be iterated
RepoTopics(repo) ==
    LET topics == Get(repo, "topics", Some(<<>>))
    IN  IF topics = None THEN Raised
        ELSE Returned([k \in DOMAIN topics.some |-> Lower(topics.some[k])])

\* a score that counts a skill once for the name and once for the description
KeywordScorePerField(repo_name, repo_desc, all_required_skills) ==
    Cardinality({skill \in all_required_skills : Contains(repo_name, skill)})
    + Cardinality({skill \in all_required_skills : Contains(repo_desc, skill)})

\* lines 208-210: one point for each skill found in the name or the description
KeywordScore(repo_name, repo_desc, all_required_skills) ==
    Cardinality({skill \in all_required_skills :
                    Contains(repo_name, skill) \/ Contains(repo_desc, skill)})

\* lines 203-205: three points for each topic that is a skill
TopicScore(repo_topics, all_required_skills) ==
    3 * Cardinality({k \in DOMAIN repo_topics : repo_topics[k] \in all_required_skills})

\* lines 199-200: five points when the language is a skill
LanguageScore(repo_lang, all_required_skills) ==
    IF repo_lang \in all_required_skills THEN 5 ELSE 0

\* lines 192-212, one turn of the loop: the score of a repo, or the exception
ScoreRepo(repo, all_required_skills) ==
    LET repo_name == RepoName(repo)
        repo_topics == RepoTopics(repo)
    IN  IF repo_name.raised \/ repo_topics.raised THEN Raised
        ELSE Returned(LanguageScore(RepoLang(repo), all_required_skills)
                      + TopicScore(repo_topics.value, all_required_skills)
                      + KeywordScore(repo_name.value, RepoDesc(repo),
                                     all_required_skills))

\* x.get("stars", 0)
Stars(repo) == Get(repo, "stars", Some(0))

\* the number a sort key stands for where the sort does not raise
StarsNumber(stars) == IF stars = None THEN 0 ELSE stars.some

\* tuple comparison (score, stars) >= (score, stars), left to right
KeyAtLeast(a, b) ==
    \/ a.score > b.score
    \/ a.score = b.score /\ StarsNumber(a.stars) >= StarsNumber(b.stars)

\* InsertByKey of a sort that is not stable: item goes before its equals
InsertByKeyUnstable(sorted, item) ==
    LET n == Cardinality({k \in DOMAIN sorted :
                            KeyAtLeast(sorted[k], item) /\ ~KeyAtLeast(item, sorted[k])})
    IN  SubSeq(sorted, 1, n) \o <<item>> \o SubSeq(sorted, n + 1, Len(sorted))

\* one step of the stable sort with reverse=True: item goes after every item
\* of the sorted prefix whose key is at least its own
InsertByKey(sorted, item) ==
    LET n == Cardinality({k \in DOMAIN sorted : KeyAtLeast(sorted[k], item)})
    IN  SubSeq(sorted, 1, n) \o <<item>> \o SubSeq(sorted, n + 1, Len(sorted))

\* sorted(..., reverse=True) of items that can be compared
SortedByKey(keyed) ==
    LET loop[k \in 0..Len(keyed)] ==
            IF k = 0 THEN <<>> ELSE InsertByKey(loop[k - 1], keyed[k])
    IN  loop[Len(keyed)]

\* line 186: the keys are the stars themselves. With two or more items the
\* sort compares every item with another one, and `<` between None and
\* anything raises TypeError
StarsKeysRaise(keyed) ==
    /\ Len(keyed) >= 2
    /\ \E k \in DOMAIN keyed : keyed[k].stars = None

\* line 216: the keys are tuples (score, stars). Tuples with different scores
\* are ordered by the scores, tuples that are equal are not ordered at all;
\* tuples with equal scores and different stars are ordered by `<` on the
\* stars, which raises TypeError when one of them is None. A sort has to
\* compare two such items whenever both are in the list
TupleKeysRaise(keyed) ==
    \E i, j \in DOMAIN keyed :
        /\ keyed[i].score = keyed[j].score
        /\ keyed[i].stars = None
        /\ keyed[j].stars # None

\* a result that keeps each repo together with its score and its sort key
TopScoredProjects(sorted) ==
    [k \in 1..Min(GITHUB_MAX_TOP_PROJECTS, Len(sorted)) |-> sorted[k]]

\* [: config.GITHUB_MAX_TOP_PROJECTS] of the sorted list, the repos alone
TopProjects(sorted) ==
    [k \in 1..Min(GITHUB_MAX_TOP_PROJECTS, Len(sorted)) |-> sorted[k].repo]

\* a fallback that forgets to sort: the first repos as they came
PopularityFallbackUnsorted(repo_list) ==
    Returned(SubSeq(repo_list, 1, Min(GITHUB_MAX_TOP_PROJECTS, Len(repo_list))))

\* lines 184-188: no skill at all, the repos by their stars
PopularityFallback(repo_list) ==
    LET keyed == [k \in DOMAIN repo_list |->
                    [score |-> 0, stars |-> Stars(repo_list[k]), repo |-> repo_list[k]]]
    IN  IF StarsKeysRaise(keyed) THEN Raised
        ELSE Returned(TopProjects(SortedByKey(keyed)))

\* lines 190-220: the repos by score, then by stars
RankByScore(repo_list, all_required_skills) ==
    LET scored == [k \in DOMAIN repo_list |-> ScoreRepo(repo_list[k], all_required_skills)]
    IN  IF \E k \in DOMAIN scored : scored[k].raised THEN Raised
        ELSE LET keyed == [k \in DOMAIN repo_list |->
                              [score |-> scored[k].value,
                               stars |-> Stars(repo_list[k]),
                               repo |-> repo_list[k]]]
             IN  IF TupleKeysRaise(keyed) THEN Raised
                 ELSE Returned(TopProjects(SortedByKey(keyed)))

\* GitHubScraper.select_relevant_projects; job_skills.values() needs a dict
SelectRelevantProjects(repo_list, skills_by_category) ==
    IF repo_list = <<>> THEN Returned(<<>>)
    ELSE IF skills_by_category = None THEN Raised
    ELSE LET all_required_skills == AllRequiredSkills(skills_by_category)
         IN  IF all_required_skills = {}
             THEN PopularityFallback(repo_list)
             ELSE RankByScore(repo_list, all_required_skills)

\* ------------------------------------------------ calls of the ranker

\* how many repos a list of the varied catalog holds at most
MaxRepos == 3

\* how many repos a long list holds at most: more than the limit of five
MaxLongList == 6

\* a repo as scrape_profile builds it: every key present, no value None
Repo(name, description, language, topics, stars) ==
    [name |-> Some(name), description |-> Some(description),
     language |-> Some(language), topics |-> Some(topics), stars |-> Some(stars)]

\* the caller appends a repo to the list
AddRepo(Catalog, Max) ==
    /\ ranked = None
    /\ Len(repos) < Max
    /\ \E repo \in Catalog : repos' = Append(repos, repo)
    /\ UNCHANGED <<job_skills, ranked>>
    /\ UNCHANGED exceptRanker

\* GitHubScraper.select_relevant_projects(repos, job_skills)
SelectProjects ==
    /\ ranked = None
    /\ ranked' = SelectRelevantProjects(repos, job_skills)
    /\ UNCHANGED <<repos, job_skills>>
    /\ UNCHANGED exceptRanker

\* no call of the analyzer is under way
AnalyzerIdle ==
    /\ text = <<>>
    /\ edits = 0
    /\ pc = "ready"
    /\ result = None
    /\ cache = {}
    /\ now = 0
    /\ dbUp = FALSE
    /\ cacheLog = ""

\* a fresh call of the ranker with one of the given skills
InitRankerWith(Skills) ==
    /\ repos = <<>>
    /\ job_skills \in Skills
    /\ ranked = None
    /\ AnalyzerIdle
    /\ NoThreads
    /\ ValidatorIdle
    /\ WebIdle
    /\ ServicesIdle

\* repos that differ in every field the score looks at
RepoCatalog ==
    { Repo(<<"a","p","i">>, <<>>, <<"G","o">>, <<>>, 5),
      Repo(<<"a","p","i">>, <<>>, <<"P","y","t","h","o","n">>, <<>>, 5),
      Repo(<<"a","p","i">>, <<>>, <<"P","y","t","h","o","n">>, <<>>, 50),
      Repo(<<"G","o","-","W","e","b">>, <<"a"," ","g","o"," ","a","p","i">>, <<>>, <<<<"W","e","b">>, <<"g","o">>>>, 5),
      Repo(<<"x">>, <<"W","e","b"," ","a","p","i"," ","i","n"," ","G","o">>, <<"G","o">>, <<<<"g","o">>, <<"g","o">>>>, 0),
      Repo(<<"x">>, <<>>, <<"g","o">>, <<>>, 50),
      Repo(<<"x">>, <<>>, <<>>, <<>>, 50),
      Repo(<<"y">>, <<>>, <<>>, <<>>, 50) }

\* skills as the analyzer gives them and as other callers may: none, empty
\* lists only, a value that is no list, one token, several categories
SkillChoices ==
    { None,
      Dict(<<>>),
      Dict(<<[category |-> "languages", skills |-> List(<<>>)],
             [category |-> "tools", skills |-> [other |-> TRUE]]>>),
      Dict(<<[category |-> "languages", skills |-> List(<<<<"p","y","t","h","o","n">>>>)]>>),
      Dict(<<[category |-> "languages", skills |-> List(<<<<"G","o">>, <<"p","y","t","h","o","n">>>>)],
             [category |-> "tools", skills |-> List(<<<<"a","p","i">>, <<"w","e","b">>, <<"g","o">>>>)]>>) }

InitRanker == InitRankerWith(SkillChoices)

NextRanker ==
    \/ AddRepo(RepoCatalog, MaxRepos)
    \/ SelectProjects

SpecRanker == InitRanker /\ [][NextRanker]_vars

\* three repos, two of them alike in stars, for lists longer than the limit
FewRepos ==
    { Repo(<<"a","p","i">>, <<>>, <<"G","o">>, <<>>, 5),
      Repo(<<"a","p","i">>, <<>>, <<"P","y","t","h","o","n">>, <<>>, 5),
      Repo(<<"y">>, <<>>, <<>>, <<>>, 50) }

NextRankerLong ==
    \/ AddRepo(FewRepos, MaxLongList)
    \/ SelectProjects

SpecRankerLong == InitRanker /\ [][NextRankerLong]_vars

\* the call has returned
Ranked == ranked # None /\ ~ranked.raised

\* the skill set of the call is empty: no dict entry holds a list with a token
NoSkills ==
    /\ job_skills # None
    /\ \A e \in Range(job_skills.dict) : IsList(e.skills) => e.skills.list = <<>>

\* the place of repo i in the order by the given keys: how many repos go
\* before it, those of a greater key and those of the same key that came
\* earlier in the list
PlaceOf(keys, i) ==
    Cardinality({j \in DOMAIN keys :
                    \/ keys[j] > keys[i]
                    \/ keys[j] = keys[i] /\ j < i})

\* the first `limit` repos of the list in the order by the given keys
FirstByKeys(repo_list, keys, limit) ==
    [k \in 1..Min(limit, Len(repo_list)) |->
        repo_list[CHOOSE i \in DOMAIN repo_list : PlaceOf(keys, i) = k - 1]]

\* C13: an empty list of repos gives [] whatever the skills are; with repos
\* and no skill token at all the result is the first five repos by falling
\* stars, repos of equal stars in their input order.
C13_DegenerateInputs ==
    (ranked # None) =>
        /\ repos = <<>> => ranked = Returned(<<>>)
        /\ (repos # <<>> /\ NoSkills) =>
              ranked = Returned(FirstByKeys(repos,
                                            [i \in DOMAIN repos |-> repos[i].stars.some],
                                            GITHUB_MAX_TOP_PROJECTS))

\* the fallback on a list longer than the limit: the repo of most stars came
\* last and is returned first, two repos of equal stars keep their order, and
\* five repos are returned
C13_Witness ==
    /\ Ranked
    /\ NoSkills
    /\ Len(repos) > GITHUB_MAX_TOP_PROJECTS
    /\ repos[1].stars = repos[2].stars
    /\ repos[1] # repos[2]
    /\ repos[Len(repos)].stars.some > repos[1].stars.some
    /\ SubSeq(ranked.value, 1, 3) = <<repos[Len(repos)], repos[1], repos[2]>>
    /\ Len(ranked.value) = GITHUB_MAX_TOP_PROJECTS

\* ------------------------------------------------------ scoring (C14)

\* the lowercased tokens of the lists among the values of job_skills
SkillSet(skills_by_category) ==
    LET lists == {e.skills.list :
                    e \in {x \in Range(skills_by_category.dict) : IsList(x.skills)}}
    IN  {Lower(token) : token \in UNION {Range(l) : l \in lists}}

\* token stands somewhere inside s
IsSubstring(token, s) ==
    \E i \in 1..(Len(s) - Len(token) + 1) :
        \A k \in 1..Len(token) : s[i + k - 1] = token[k]

\* the score as the three rules give it, for a repo with every field set
RuleScore(repo, skill_set) ==
    (IF Lower(repo.language.some) \in skill_set THEN 5 ELSE 0)
    + 3 * Cardinality({k \in DOMAIN repo.topics.some :
                          Lower(repo.topics.some[k]) \in skill_set})
    + Cardinality({token \in skill_set :
                      \/ IsSubstring(token, Lower(repo.name.some))
                      \/ IsSubstring(token, Lower(repo.description.some))})

\* a and b differ in the language and in nothing else
DifferInLanguageOnly(a, b) ==
    /\ a.language # b.language
    /\ [a EXCEPT !.language = b.language] = b

\* the place of a repo in a result, 0 when it is not in it
PlaceIn(projects, repo) ==
    IF \E k \in DOMAIN projects : projects[k] = repo
    THEN CHOOSE k \in DOMAIN projects :
            projects[k] = repo /\ \A j \in 1..(k - 1) : projects[j] # repo
    ELSE 0

\* C14: with at least one skill token, the score of a repo is 5 for a
\* language in the skill set, plus 3 for each topic in it, plus 1 for each
\* token of the set found in the name or the description (once per token);
\* of two repos that differ in the language only, where only the first one's
\* language is a skill, the first scores 5 more and, when the second is
\* returned, is returned before it.
C14_Scoring ==
    (Ranked /\ repos # <<>> /\ ~NoSkills) =>
        LET skill_set == SkillSet(job_skills)
        IN  /\ \A i \in DOMAIN repos :
                  ScoreRepo(repos[i], AllRequiredSkills(job_skills))
                      = Returned(RuleScore(repos[i], skill_set))
            /\ \A i, j \in DOMAIN repos :
                  (/\ DifferInLanguageOnly(repos[i], repos[j])
                   /\ Lower(repos[i].language.some) \in skill_set
                   /\ Lower(repos[j].language.some) \notin skill_set)
                  => /\ RuleScore(repos[i], skill_set)
                            = RuleScore(repos[j], skill_set) + 5
                     /\ PlaceIn(ranked.value, repos[j]) >= 1 =>
                            /\ PlaceIn(ranked.value, repos[i]) >= 1
                            /\ PlaceIn(ranked.value, repos[i])
                                   < PlaceIn(ranked.value, repos[j])

\* a repo that collects points of all three kinds, and a pair that differs
\* in the language only, of which the second one in the list is returned first
C14_Witness ==
    /\ Ranked
    /\ ~NoSkills
    /\ Len(repos) = 3
    /\ LET skill_set == SkillSet(job_skills)
       IN  /\ RuleScore(repos[1], skill_set) = 5 + 2 * 3 + 3
           /\ DifferInLanguageOnly(repos[3], repos[2])
           /\ Lower(repos[3].language.some) \in skill_set
           /\ Lower(repos[2].language.some) \notin skill_set
           /\ PlaceIn(ranked.value, repos[2]) >= 1
           /\ PlaceIn(ranked.value, repos[3]) < PlaceIn(ranked.value, repos[2])

\* ------------------------------------------- order and cut (C15)

\* pair (score, stars) of repo i is greater than that of repo j
PairGreater(scores, stars, i, j) ==
    \/ scores[i] > scores[j]
    \/ scores[i] = scores[j] /\ stars[i] > stars[j]

\* the place of repo i in the order by falling score, then falling stars,
\* then place in the input: how many repos go before it
PairPlaceOf(scores, stars, i) ==
    Cardinality({j \in DOMAIN scores :
                    \/ PairGreater(scores, stars, j, i)
                    \/ scores[j] = scores[i] /\ stars[j] = stars[i] /\ j < i})

\* how often a repo stands in a list
TimesIn(repo_list, repo) == Cardinality({k \in DOMAIN repo_list : repo_list[k] = repo})

\* C15: with at least one skill token the result holds the first
\* min(5, number of repos) repos in the order by falling score, then falling
\* stars, then input order; no repo left out has a greater (score, stars)
\* pair than a repo returned; no repo is returned more often than it was
\* given.
C15_OrderAndCut ==
    (Ranked /\ repos # <<>> /\ ~NoSkills) =>
        LET scores == [i \in DOMAIN repos |-> RuleScore(repos[i], SkillSet(job_skills))]
            stars == [i \in DOMAIN repos |-> repos[i].stars.some]
            place == [i \in DOMAIN repos |-> PairPlaceOf(scores, stars, i)]
            kept == Min(GITHUB_MAX_TOP_PROJECTS, Len(repos))
        IN  /\ Len(ranked.value) = kept
            /\ \A i \in DOMAIN repos :
                  place[i] < kept => ranked.value[place[i] + 1] = repos[i]
            /\ \A i, j \in DOMAIN repos :
                  (place[i] >= kept /\ place[j] < kept)
                      => ~PairGreater(scores, stars, i, j)
            /\ \A k \in DOMAIN ranked.value :
                  TimesIn(ranked.value, ranked.value[k]) <= TimesIn(repos, ranked.value[k])

\* a list longer than the limit: the third repo has the only language match
\* and comes first, the second goes before the first by its stars alone, and
\* a repo is left out
C15_Witness ==
    /\ Ranked
    /\ ~NoSkills
    /\ Len(repos) > GITHUB_MAX_TOP_PROJECTS
    /\ Len(ranked.value) = GITHUB_MAX_TOP_PROJECTS
    /\ LET skill_set == SkillSet(job_skills)
       IN  /\ RuleScore(repos[3], skill_set) > RuleScore(repos[2], skill_set)
           /\ RuleScore(repos[2], skill_set) = RuleScore(repos[1], skill_set)
           /\ repos[2].stars.some > repos[1].stars.some
           /\ repos[3].stars.some < repos[2].stars.some
    /\ SubSeq(ranked.value, 1, 3) = <<repos[3], repos[2], repos[1]>>

\* ------------------------------------------------ result shape (C16)

\* the keys of a repo dict
RepoKeys == {"name", "description", "language", "topics", "stars"}

\* C16, as first stated: every element of a result carries the relevance
\* score computed for it and its rank, counted from 1; after the fallback the
\* score may be missing or zero.
C16_ScoreAndRankReturned ==
    Ranked =>
        \A k \in DOMAIN ranked.value :
            LET e == ranked.value[k]
            IN  /\ "rank" \in DOMAIN e
                /\ e.rank = k
                /\ IF NoSkills
                   THEN "relevance_score" \in DOMAIN e => e.relevance_score = 0
                   ELSE /\ "relevance_score" \in DOMAIN e
                        /\ e.relevance_score = RuleScore(e, SkillSet(job_skills))
                        /\ e.relevance_score >= 0

\* C16, amended: every element of a result is one of the repos handed in,
\* as it was handed in, with no score and no rank added; its rank is its
\* place in the list: the scores, which are never negative, do not rise
\* along the list.
C16_BareReposInRankOrder ==
    Ranked =>
        /\ \A k \in DOMAIN ranked.value :
              /\ ranked.value[k] \in Range(repos)
              /\ DOMAIN ranked.value[k] = RepoKeys
        /\ ~NoSkills =>
              LET score == [k \in DOMAIN ranked.value |->
                               RuleScore(ranked.value[k], SkillSet(job_skills))]
              IN  /\ \A k \in DOMAIN score : score[k] >= 0
                  /\ \A k \in 1..(Len(score) - 1) : score[k] >= score[k + 1]

\* a result of three repos of three different scores
C16_Witness ==
    /\ Ranked
    /\ ~NoSkills
    /\ Len(ranked.value) = 3
    /\ LET skill_set == SkillSet(job_skills)
       IN  /\ RuleScore(ranked.value[1], skill_set) > RuleScore(ranked.value[2], skill_set)
           /\ RuleScore(ranked.value[2], skill_set) > RuleScore(ranked.value[3], skill_set)
           /\ ranked.value # repos

\* ------------------------------------------- malformed repos (C17)

\* a well-formed repo, and the same repo with one key absent or one value None
SoundRepo == Repo(<<"a","p","i">>, <<"a"," ","g","o"," ","a","p","i">>, <<"P","y","t","h","o","n">>, <<<<"g","o">>>>, 5)

MalformedRepos ==
    { SoundRepo, Repo(<<"x">>, <<>>, <<>>, <<>>, 50) }
    \cup {[SoundRepo EXCEPT ![key] = Missing] : key \in RepoKeys}
    \cup {[SoundRepo EXCEPT ![key] = None] : key \in RepoKeys}

\* skills of a call that is sound in itself: none, one token, several
SoundSkills == SkillChoices \ {None}

InitMalformed == InitRankerWith(SoundSkills)

NextMalformed ==
    \/ AddRepo(MalformedRepos, MaxRepos)
    \/ SelectProjects

SpecMalformed == InitMalformed /\ [][NextMalformed]_vars

\* what an absent or None field is to count as: the empty string, no topics, 0
DefaultOf(key) ==
    IF key = "stars" THEN Some(0) ELSE Some(<<>>)

\* the repo with every absent or None field set to what it counts as
Normalized(repo) ==
    [key \in RepoKeys |->
        IF repo[key] = Missing \/ repo[key] = None THEN DefaultOf(key) ELSE repo[key]]

\* C17: select_relevant_projects never raises, and a repo with a field
\* absent or None is scored and placed as the same repo with the empty
\* string, no topics or 0 stars in that field.
C17_TotalOnMalformed ==
    (ranked # None) =>
        /\ ~ranked.raised
        /\ LET sound == SelectRelevantProjects(
                            [k \in DOMAIN repos |-> Normalized(repos[k])], job_skills)
           IN  /\ Len(ranked.value) = Len(sound.value)
               /\ \A k \in DOMAIN ranked.value :
                      Normalized(ranked.value[k]) = sound.value[k]

\* ------------------------------------ concurrent request threads (C18)

\* how many request threads run at a time
NumThreads == 2

\* a call of analyze that a thread starts
AnalyzeThread(job_description) ==
    [kind |-> "analyze", pc |-> "lookup", arg |-> job_description,
     computed |-> None, existing |-> None, out |-> None]

\* a call of select_relevant_projects that a thread starts
RankThread(skills_by_category) ==
    [kind |-> "rank", pc |-> "rank", arg |-> skills_by_category,
     computed |-> None, existing |-> None, out |-> None]

\* the call of thread t ends with the given outcome
Finish(t, outcome) ==
    threads' = [threads EXCEPT ![t].pc = "done", ![t].out = outcome]

\* lines 89-94 and 96-117 in thread t: the lookup, and on a miss or an
\* exception the extraction
ThreadLookup(t) ==
    /\ threads[t].pc = "lookup"
    /\ LET cached_result ==
               LookupOrPass(GetCachedJobAnalysis(cache, threads[t].arg, now, dbUp))
       IN  IF cached_result.raised THEN Finish(t, Raised)
           ELSE IF Truthy(cached_result.value)
           THEN Finish(t, Returned(cached_result.value))
           ELSE threads' = [threads EXCEPT
                               ![t].pc = "first",
                               ![t].computed = ComputeProfile(threads[t].arg)]
    /\ UNCHANGED <<analyzerVars, rankerVars, validatorVars, webVars, serviceVars>>

\* JobCache.objects(job_description_hash=desc_hash).first()
FirstExisting(jobCache, job_description, connected) ==
    IF ~connected THEN Raised
    ELSE LET existing == ByHash(jobCache, Sha256(job_description))
         IN  Returned(IF existing # {} THEN CHOOSE d \in existing : TRUE ELSE None)

\* existing.delete(): by primary key; a document already gone is no error
DeleteExisting(jobCache, existing, connected) ==
    IF ~connected THEN Raised ELSE Returned(jobCache \ {existing})

\* cache.save() of a new document: the unique index on job_description_hash
\* refuses a second document of the same hash (NotUniqueError)
SaveNew(jobCache, doc, connected) ==
    IF ~connected THEN Raised
    ELSE IF \E d \in jobCache : d.job_description_hash = doc.job_description_hash
    THEN Raised
    ELSE Returned(jobCache \cup {doc})

\* the document that cache_job_analysis builds
NewJobCache(job_description, analyzed_content, utcnow) ==
    [job_description_hash |-> Sha256(job_description),
     job_description |-> job_description,
     analyzed_content |-> analyzed_content,
     expires_at |-> utcnow + ttl_hours]

\* repositories.py line 187 in thread t, inside the try of analyze
ThreadFirst(t) ==
    /\ threads[t].pc = "first"
    /\ LET first == FirstExisting(cache, threads[t].arg, dbUp)
           guarded == StoreOrPass(first, cache)
       IN  IF guarded.raised THEN Finish(t, Raised)
           ELSE IF first.raised THEN Finish(t, Returned(threads[t].computed))
           ELSE threads' = [threads EXCEPT
                               ![t].existing = first.value,
                               ![t].pc = IF first.value # None THEN "delete" ELSE "save"]
    /\ UNCHANGED <<analyzerVars, rankerVars, validatorVars, webVars, serviceVars>>

\* repositories.py lines 188-189 in thread t
ThreadDelete(t) ==
    /\ threads[t].pc = "delete"
    /\ LET deleted == DeleteExisting(cache, threads[t].existing, dbUp)
           guarded == StoreOrPass(deleted, cache)
       IN  IF guarded.raised
           THEN Finish(t, Raised) /\ cache' = cache
           ELSE IF deleted.raised
           THEN Finish(t, Returned(threads[t].computed)) /\ cache' = cache
           ELSE /\ threads' = [threads EXCEPT ![t].pc = "save"]
                /\ cache' = deleted.value
    /\ UNCHANGED <<text, edits, pc, result, now, dbUp, cacheLog>>
    /\ UNCHANGED <<rankerVars, validatorVars, webVars, serviceVars>>

\* repositories.py lines 192-200 and job_analyzer.py lines 122-125 in thread t
ThreadSave(t) ==
    /\ threads[t].pc = "save"
    /\ LET doc == NewJobCache(threads[t].arg, threads[t].computed, now)
           stored == StoreOrPass(SaveNew(cache, doc, dbUp), cache)
       IN  IF stored.raised
           THEN Finish(t, Raised) /\ cache' = cache
           ELSE Finish(t, Returned(threads[t].computed)) /\ cache' = stored.value
    /\ UNCHANGED <<text, edits, pc, result, now, dbUp, cacheLog>>
    /\ UNCHANGED <<rankerVars, validatorVars, webVars, serviceVars>>

\* list.sort() in place of sorted(): the caller's list comes back reordered
ListSortedInPlace(repo_list, out) == IF out.raised THEN repo_list ELSE out.value

\* a list handed to sorted() in place of list.sort(): it stays as it was
ListAfterSorted(repo_list, out) == repo_list

\* select_relevant_projects in thread t, on the list the threads share
ThreadRank(t) ==
    /\ threads[t].pc = "rank"
    /\ \E out \in {SelectRelevantProjects(repos, threads[t].arg)} :
          /\ Finish(t, out)
          /\ repos' = ListAfterSorted(repos, out)
    /\ UNCHANGED <<job_skills, ranked>>
    /\ UNCHANGED <<analyzerVars, validatorVars, webVars, serviceVars>>

\* the thread takes the next request
ThreadNewCall(t, Calls) ==
    /\ threads[t].pc = "done"
    /\ \E call \in Calls : threads' = [threads EXCEPT ![t] = call]
    /\ UNCHANGED <<analyzerVars, rankerVars, validatorVars, webVars, serviceVars>>

\* the job descriptions and the skills of the concurrent requests
ThreadTexts == { <<"R","o","l","e",":"," ","G","o",","," ","B","S">>, <<"r","o","l","e",":"," ","g","o",","," ","b","s">> }

ThreadSkills ==
    { Dict(<<>>),
      Dict(<<[category |-> "languages", skills |-> List(<<<<"p","y","t","h","o","n">>>>)]>>) }

ThreadCalls ==
    {AnalyzeThread(t) : t \in ThreadTexts} \cup {RankThread(s) : s \in ThreadSkills}

\* the list of repos that the ranking threads share
SharedRepos ==
    << Repo(<<"a","p","i">>, <<>>, <<"G","o">>, <<>>, 5),
       Repo(<<"a","p","i">>, <<>>, <<"P","y","t","h","o","n">>, <<>>, 5),
       Repo(<<"y">>, <<>>, <<>>, <<>>, 50) >>

InitThreads ==
    /\ threads \in [1..NumThreads -> ThreadCalls]
    /\ repos = SharedRepos
    /\ job_skills = <<>>
    /\ ranked = None
    /\ text = <<>>
    /\ edits = 0
    /\ pc = "ready"
    /\ result = None
    /\ cache = {}
    /\ now = 0
    /\ dbUp = TRUE
    /\ cacheLog = ""
    /\ ValidatorIdle
    /\ WebIdle
    /\ ServicesIdle

NextThreads ==
    \/ \E t \in DOMAIN threads :
          \/ ThreadLookup(t)
          \/ ThreadFirst(t)
          \/ ThreadDelete(t)
          \/ ThreadSave(t)
          \/ ThreadRank(t)
          \/ ThreadNewCall(t, ThreadCalls)
    \/ DbFail
    \/ DbRecover

SpecThreads == InitThreads /\ [][NextThreads]_vars

\* what the call of a thread returns when no other thread runs
AloneOutcome(thread) ==
    IF thread.kind = "analyze"
    THEN Returned(PureProfile[thread.arg])
    ELSE SelectRelevantProjects(SharedRepos, thread.arg)

\* C18: however the steps of the threads interleave, every call that has
\* ended returned what it returns when it runs alone, none raised, and the
\* list of repos that the ranking calls share is never changed.
C18_ConcurrentCallsSafe ==
    /\ [](\A t \in DOMAIN threads :
            threads[t].pc = "done" =>
                /\ ~threads[t].out.raised
                /\ threads[t].out = AloneOutcome(threads[t]))
    /\ [][repos' = repos]_vars

\* two calls for the same text that both missed the lookup and both found
\* nothing to delete: the save of one of them met the document of the other
C18_Witness ==
    \E t, u \in DOMAIN threads :
        /\ t # u
        /\ threads[t].kind = "analyze" /\ threads[u].kind = "analyze"
        /\ threads[t].arg = threads[u].arg
        /\ threads[t].pc = "done" /\ threads[u].pc = "done"
        /\ threads[t].computed # None /\ threads[u].computed # None
        /\ threads[t].existing = None /\ threads[u].existing = None
        /\ ~threads[t].out.raised /\ ~threads[u].out.raised
        /\ Cardinality(cache) = 1

\* ------------------------------------------- input validators (C20)

\* validators.py line 20: [a-zA-Z0-9]
Alnum == LowerLetters \cup UpperLetters \cup Digits

\* validators.py line 20: the {0,37} of GITHUB_USERNAME_PATTERN
PatternMiddleMax == 37

\* validators.py line 50: `len(username) > 39`
MaxUsernameLen == 39

\* length of the job description, validators.py lines 23-24
MIN_JOB_DESC_LENGTH == 50

MAX_JOB_DESC_LENGTH == 50000

\* an exception of the given class was raised
RaisedAs(exc) == [raised |-> TRUE, value |-> None, exc |-> exc]

\* [a-zA-Z0-9](?:[a-zA-Z0-9-]{0,37}[a-zA-Z0-9])? over the whole of s
UsernameBody(s) ==
    /\ Len(s) >= 1
    /\ s[1] \in Alnum
    /\ Len(s) >= 2 =>
          /\ Len(s) - 2 <= PatternMiddleMax
          /\ s[Len(s)] \in Alnum
          /\ \A i \in 2..(Len(s) - 1) : s[i] \in Alnum \cup {"-"}

\* re.match(GITHUB_USERNAME_PATTERN, s): `$` also matches before a newline
\* that ends the string
MatchesUsernamePattern(s) ==
    \/ UsernameBody(s)
    \/ /\ Len(s) >= 2
       /\ s[Len(s)] = "\n"
       /\ UsernameBody(SubSeq(s, 1, Len(s) - 1))

\* InputValidator.validate_github_username
validate_github_username(name) ==
    IF name = <<>> THEN Returned(<<>>)
    ELSE LET stripped == Strip(name)
         IN  IF ~MatchesUsernamePattern(stripped)
             THEN RaisedAs("InvalidGitHubUsername")
             ELSE IF Len(stripped) > MaxUsernameLen
             THEN RaisedAs("InvalidGitHubUsername")
             ELSE Returned(stripped)

\* InputValidator.is_valid_github_username
is_valid_github_username(name) ==
    LET outcome == validate_github_username(name)
    IN  IF ~outcome.raised THEN Returned(TRUE)
        ELSE IF outcome.exc = "InvalidGitHubUsername" THEN Returned(FALSE)
        ELSE outcome

\* InputValidator.validate_job_description
validate_job_description(job_desc) ==
    IF job_desc = <<>> THEN RaisedAs("InvalidJobDescription")
    ELSE LET stripped == Strip(job_desc)
         IN  IF Len(stripped) < MIN_JOB_DESC_LENGTH
             THEN RaisedAs("InvalidJobDescription")
             ELSE IF Len(stripped) > MAX_JOB_DESC_LENGTH
             THEN RaisedAs("InvalidJobDescription")
             ELSE Returned(stripped)

\* how many pieces are typed after the first one
MaxTyped == 3

\* a run of n times the character c
Repeat(c, n) == [i \in 1..n |-> c]

\* what a username field starts with, and the characters typed after it
UsernameSeeds == { <<>>, <<"-">>, <<" ">>, <<"o","c","t","o">>, Repeat("a", MaxUsernameLen - 2) }

UsernameKeys == { "a", "Z", "7", "-", " ", "@", "\n" }

UsernameInputs ==
    { seed \o typed : seed \in UsernameSeeds,
                      typed \in UNION { [1..n -> UsernameKeys] : n \in 0..MaxTyped } }

\* the username is handed to both validators
ValidateUsername ==
    /\ validated = None
    /\ validated' = validate_github_username(username)
    /\ is_valid' = is_valid_github_username(username)
    /\ UNCHANGED username
    /\ UNCHANGED <<analyzerVars, rankerVars, threads, webVars, serviceVars>>

\* the client types one more character and asks again
RetypeUsername ==
    /\ validated # None
    /\ \E key \in UsernameKeys :
          /\ Append(username, key) \in UsernameInputs
          /\ username' = Append(username, key)
    /\ validated' = None
    /\ is_valid' = None
    /\ UNCHANGED <<analyzerVars, rankerVars, threads, webVars, serviceVars>>

InitUsernames ==
    /\ AnalyzerIdle
    /\ RankerIdle
    /\ NoThreads
    /\ WebIdle
    /\ ServicesIdle
    /\ username \in UsernameInputs
    /\ validated = None
    /\ is_valid = None

NextUsernames == ValidateUsername \/ RetypeUsername

SpecUsernames == InitUsernames /\ [][NextUsernames]_vars

\* 1 to 39 letters, digits and hyphens, no hyphen first or last
WellFormedUsername(s) ==
    /\ Len(s) \in 1..MaxUsernameLen
    /\ \A i \in 1..Len(s) : s[i] \in Alnum \cup {"-"}
    /\ s[1] # "-"
    /\ s[Len(s)] # "-"

\* C20: validate_github_username returns a well-formed username (1 to 39
\* letters, digits and hyphens, no hyphen at either end) unchanged and raises
\* InvalidGitHubUsername for every other string, the empty one included;
\* is_valid_github_username is true exactly when it does not raise.
C20_UsernameValidation ==
    validated # None =>
        /\ WellFormedUsername(username) => validated = Returned(username)
        /\ ~WellFormedUsername(username) =>
              /\ validated.raised
              /\ validated.exc = "InvalidGitHubUsername"
        /\ is_valid = Returned(~validated.raised)

\* ------------------------------------------- request handlers (C19, C21, C27, C28)

\* a POST with a JSON body; a key the body lacks reads as "" (data.get),
\* user_id as None
Request(app, endpoint, github_username, job_description, linkedin_file, user_id) ==
    [app |-> app, endpoint |-> endpoint, github_username |-> github_username,
     job_description |-> job_description, linkedin_file |-> linkedin_file,
     user_id |-> user_id]

\* `not data`: the body is an empty JSON object
EmptyBody(req) ==
    /\ req.github_username = <<>>
    /\ req.job_description = <<>>
    /\ ~req.linkedin_file
    /\ req.user_id = None

\* jsonify(...), status: the answer of a handler
Response(status, error) == [status |-> status, error |-> error]

\* the handler is entered with the request and has not answered yet
Handles(app, endpoint) ==
    /\ request # None
    /\ response = None
    /\ request.app = app
    /\ request.endpoint = endpoint

\* the handler answers before any stage of the pipeline
Answer(resp) ==
    /\ response' = resp
    /\ UNCHANGED <<request, analyzed, stages, resumes, applications>>

\* job_analyzer.analyze(job_description), then interview_generator.generate,
\* which ends in the tips (200) or in an error of its own (500)
AnalyzeThenAnswer(job_description) ==
    /\ analyzed' = Append(analyzed, job_description)
    /\ stages' = <<[stage |-> "analyze", ok |-> TRUE]>>
    /\ \E status \in {200, 500} : response' = Response(status, "")
    /\ UNCHANGED <<request, resumes, applications>>

\* github_scraper.scrape_profile: what it returns or raises
ScrapeOutcomes == {"ok", "GitHubUserNotFound", "GitHubAPIError", "Exception"}

\* the stages after the scrape of the GitHub profile that may fail
LaterStages == {"parse_export", "select_relevant_projects", "generate", "compile"}

\* steps 1 to 5 of generate_resume for the sources that the request names
StagesOf(github_username, linkedin_file) ==
    (IF github_username # <<>> THEN <<"scrape_profile">> ELSE <<>>)
    \o (IF linkedin_file THEN <<"parse_export">> ELSE <<>>)
    \o <<"analyze">>
    \o (IF github_username # <<>> THEN <<"select_relevant_projects">> ELSE <<>>)
    \o <<"generate", "compile">>

\* the stages gone through when those of `failing` raise and those of `fatal`
\* are not guarded by a try of their own
RECURSIVE PipelineLog(_, _, _)
PipelineLog(order, failing, fatal) ==
    IF order = <<>> THEN <<>>
    ELSE LET ok == Head(order) \notin failing
         IN  <<[stage |-> Head(order), ok |-> ok]>>
             \o (IF ~ok /\ Head(order) \in fatal THEN <<>>
                 ELSE PipelineLog(Tail(order), failing, fatal))

\* the stage whose exception ended the pipeline, "" when none did
AbortedAt(log, fatal) ==
    IF log # <<>> /\ ~log[Len(log)].ok /\ log[Len(log)].stage \in fatal
    THEN log[Len(log)].stage
    ELSE ""

\* the calls of analyze in a run of the pipeline
AnalyzeCalls(log, job_description) ==
    IF \E i \in DOMAIN log : log[i].stage = "analyze" THEN <<job_description>> ELSE <<>>

\* the parameters of ResumeRepository.create_resume (repositories.py 76-77)
CreateResumeParams ==
    {"user_id", "github_username", "job_title", "job_description", "tailored_content"}

\* the keyword arguments of the call in step 6 of both handlers
Step6Keywords ==
    {"user_id", "github_username", "job_title", "job_description", "tailored_content",
     "pdf_path"}

\* the parameters of a create_resume that takes the path too
CreateResumeParamsWithPath == CreateResumeParams \cup {"pdf_path"}

\* ResumeRepository.create_resume called with keyword arguments
create_resume(kwargs, collection, connected) ==
    IF ~(DOMAIN kwargs \subseteq CreateResumeParams) THEN RaisedAs("TypeError")
    ELSE IF ~connected THEN RaisedAs("ConnectionFailure")
    ELSE Returned(kwargs @@ [id |-> Cardinality(collection) + 1])

\* JobApplicationRepository.create_application
create_application(user_id, resume_id, job_description, collection, connected) ==
    IF ~connected THEN RaisedAs("ConnectionFailure")
    ELSE Returned([id |-> Cardinality(collection) + 1, user_id |-> user_id,
                   resume_id |-> resume_id, job_description |-> job_description])

\* step 6: the PDF is put under uploads/resumes (shutil.copy2 of the file just
\* compiled is taken to succeed) and the two records are created, all inside
\* one try whose except only logs
StoreRecords(user_id, github_username, job_description) ==
    IF user_id = None
    THEN UNCHANGED <<resumes, applications>>
    ELSE LET kwargs == [k \in Step6Keywords |->
                           CASE k = "user_id" -> user_id
                             [] k = "github_username" -> github_username
                             [] k = "job_description" -> job_description
                             [] k = "pdf_path" -> <<"uploads/resumes", user_id>>
                             [] OTHER -> "Software Engineer"]
             resume_doc == create_resume(kwargs, resumes, dbUp)
         IN  IF resume_doc.raised
             THEN UNCHANGED <<resumes, applications>>
             ELSE LET application == create_application(user_id, resume_doc.value.id,
                                                        job_description, applications, dbUp)
                  IN  /\ resumes' = resumes \cup {resume_doc.value}
                      /\ applications' = IF application.raised THEN applications
                                         ELSE applications \cup {application.value}

\* app.py, generate_resume (lines 266-390): any exception is answered with 500
generate_resume ==
    /\ Handles("app", "generate_resume")
    /\ LET github_username == Strip(request.github_username)
           job_description == Strip(request.job_description)
       IN  IF job_description = <<>>
           THEN Answer(Response(400, "Job description is required"))
           ELSE IF github_username = <<>> /\ ~request.linkedin_file
           THEN Answer(Response(400, "At least one profile or data export is required"))
           ELSE \E scraped \in ScrapeOutcomes, failing \in SUBSET LaterStages :
                   LET order == StagesOf(github_username, request.linkedin_file)
                       raising == failing \cup (IF scraped = "ok" THEN {} ELSE {"scrape_profile"})
                       fatal == LaterStages \cup {"scrape_profile"}
                       log == PipelineLog(order, raising, fatal)
                   IN  /\ stages' = log
                       /\ analyzed' = analyzed \o AnalyzeCalls(log, job_description)
                       /\ UNCHANGED request
                       /\ IF AbortedAt(log, fatal) # ""
                          THEN /\ response' = Response(500, AbortedAt(log, fatal))
                               /\ UNCHANGED <<resumes, applications>>
                          ELSE /\ response' = Response(200, "")
                               /\ StoreRecords(request.user_id, github_username,
                                               job_description)
    /\ UNCHANGED <<analyzerVars, rankerVars, threads, validatorVars, serviceVars>>

\* app.py, interview_prep (lines 395-417)
interview_prep ==
    /\ Handles("app", "interview_prep")
    /\ LET job_description == Strip(request.job_description)
       IN  IF job_description = <<>>
           THEN Answer(Response(400, "Job description is required"))
           ELSE AnalyzeThenAnswer(job_description)
    /\ UNCHANGED <<analyzerVars, rankerVars, threads, validatorVars, serviceVars>>

\* InputValidator.validate_linkedin_url of the default "": the field is optional
validate_linkedin_url(url) == Returned(url)

\* InputValidator.validate_request: a tuple of three
validate_request(github_username, job_description, linkedin_url) ==
    LET name == validate_github_username(github_username)
        desc == validate_job_description(job_description)
        link == validate_linkedin_url(linkedin_url)
    IN  IF name.raised THEN name
        ELSE IF desc.raised THEN desc
        ELSE Returned(<<name.value, desc.value, link.value>>)

\* `(a, b) = call`: as many targets as the call returned values, or ValueError
UnpackInto(targets, call) ==
    IF call.raised THEN call
    ELSE IF Len(call.value) # targets THEN RaisedAs("ValueError")
    ELSE call

\* how app_production.py answers the exception that ended the pipeline
\* (lines 443-447, 479-481, 508-526, 594-608 and the handler of 330-335)
ProductionError(stage, scraped) ==
    IF stage = "scrape_profile"
    THEN CASE scraped = "GitHubUserNotFound" -> Response(400, "VALIDATION_ERROR")
           [] scraped = "GitHubAPIError" -> Response(503, "GITHUB_ERROR")
           [] OTHER -> Response(500, "INTERNAL_ERROR")
    ELSE Response(500, "PROCESSING_ERROR")

\* app_production.py, generate_resume (lines 379-610) under the error
\* handler of lines 330-335
production_generate_resume ==
    /\ Handles("app_production", "generate_resume")
    /\ IF EmptyBody(request)
       THEN Answer(Response(400, "VALIDATION_ERROR"))
       ELSE LET valid == UnpackInto(2, validate_request(Strip(request.github_username),
                                                        Strip(request.job_description),
                                                        <<>>))
            IN  IF valid.raised
                THEN IF valid.exc = "ValueError"
                     THEN Answer(Response(500, "INTERNAL_ERROR"))
                     ELSE Answer(Response(400, "VALIDATION_ERROR"))
                ELSE IF valid.value[1] = <<>> /\ ~request.linkedin_file
                THEN Answer(Response(400, "VALIDATION_ERROR"))
                ELSE \E scraped \in ScrapeOutcomes, failing \in SUBSET LaterStages :
                        LET order == StagesOf(valid.value[1], request.linkedin_file)
                            raising == failing \cup
                                       (IF scraped = "ok" THEN {} ELSE {"scrape_profile"})
                            fatal == {"scrape_profile", "analyze", "generate", "compile"}
                            log == PipelineLog(order, raising, fatal)
                        IN  /\ stages' = log
                            /\ analyzed' = analyzed \o AnalyzeCalls(log, valid.value[2])
                            /\ UNCHANGED request
                            /\ IF AbortedAt(log, fatal) # ""
                               THEN /\ response' = ProductionError(AbortedAt(log, fatal), scraped)
                                    /\ UNCHANGED <<resumes, applications>>
                               ELSE /\ response' = Response(200, "")
                                    /\ StoreRecords(request.user_id, valid.value[1],
                                                    valid.value[2])
    /\ UNCHANGED <<analyzerVars, rankerVars, threads, validatorVars, serviceVars>>

\* app_production.py, interview_prep (lines 626-663)
production_interview_prep ==
    /\ Handles("app_production", "interview_prep")
    /\ LET job_description == Strip(request.job_description)
       IN  IF EmptyBody(request)
           THEN Answer(Response(400, "VALIDATION_ERROR"))
           ELSE IF job_description = <<>>
           THEN Answer(Response(400, "VALIDATION_ERROR"))
           ELSE AnalyzeThenAnswer(job_description)
    /\ UNCHANGED <<analyzerVars, rankerVars, threads, validatorVars, serviceVars>>

\* the next request arrives
NewHttpRequest(Arrivals) ==
    /\ response # None
    /\ request' \in Arrivals
    /\ response' = None
    /\ analyzed' = <<>>
    /\ stages' = <<>>
    /\ UNCHANGED <<resumes, applications>>
    /\ UNCHANGED <<analyzerVars, rankerVars, threads, validatorVars, serviceVars>>

\* the job descriptions that clients post: none, white space, short ones,
\* the shortest and the longest that the validator lets through, one too long
PostedTexts ==
    { <<>>, <<" "," ">>, <<"G","o"," ","d","e","v">>,
      Repeat("x", MIN_JOB_DESC_LENGTH - 1),
      Repeat("x", MIN_JOB_DESC_LENGTH),
      <<" ">> \o Repeat("x", MIN_JOB_DESC_LENGTH) \o <<"\n">>,
      Repeat("x", MAX_JOB_DESC_LENGTH),
      Repeat("x", MAX_JOB_DESC_LENGTH + 1) }

PostedUsernames == { <<>>, <<"o","c","t","o","c","a","t">>, <<"-","b","a","d">> }

\* the texts of at most a line, and the two of the length of a book
ShortTexts == { posted \in PostedTexts : Len(posted) <= MIN_JOB_DESC_LENGTH + 2 }

LongTexts == PostedTexts \ ShortTexts

\* user_id of the body: absent, or the id of a logged-in user
PostedUsers == { None, Some("u1") }

Arrivals ==
    { Request(app, "generate_resume", name, posted, file, user) :
          app \in {"app", "app_production"}, name \in PostedUsernames,
          posted \in ShortTexts, file \in BOOLEAN, user \in PostedUsers }
    \cup
    { Request(app, "generate_resume", <<"o","c","t","o","c","a","t">>, posted, FALSE, None) :
          app \in {"app", "app_production"}, posted \in LongTexts }
    \cup
    { Request(app, "interview_prep", <<>>, posted, FALSE, None) :
          app \in {"app", "app_production"}, posted \in PostedTexts }

InitWeb ==
    /\ text = <<>>
    /\ edits = 0
    /\ pc = "ready"
    /\ result = None
    /\ cache = {}
    /\ now = 0
    /\ dbUp \in BOOLEAN
    /\ cacheLog = ""
    /\ RankerIdle
    /\ NoThreads
    /\ ValidatorIdle
    /\ ServicesIdle
    /\ request \in Arrivals
    /\ response = None
    /\ analyzed = <<>>
    /\ stages = <<>>
    /\ resumes = {}
    /\ applications = {}

NextWeb ==
    \/ generate_resume
    \/ interview_prep
    \/ production_generate_resume
    \/ production_interview_prep
    \/ NewHttpRequest(Arrivals)

SpecWeb == InitWeb /\ [][NextWeb]_vars

\* C19: in every handler of both entry points, analyze is called only with a
\* job description whose trimmed length is between 50 and 50000, and a
\* description outside that range is answered with a validation error (400)
\* without any call of analyze.
C19_ValidationPrecedesAnalyze ==
    /\ \A i \in DOMAIN analyzed :
          /\ ~validate_job_description(analyzed[i]).raised
          /\ Len(analyzed[i]) \in MIN_JOB_DESC_LENGTH..MAX_JOB_DESC_LENGTH
    /\ (response # None /\ validate_job_description(request.job_description).raised) =>
          /\ response.status = 400
          /\ analyzed = <<>>

\* a request that names no job description, or no profile source
LacksRequiredField(req) ==
    \/ Strip(req.job_description) = <<>>
    \/ Strip(req.github_username) = <<>> /\ ~req.linkedin_file

\* C21: the production generate-resume endpoint answers every request without
\* a job description, and every request with neither a GitHub username nor a
\* LinkedIn export, with 400 and an error field, and runs no stage for it.
C21_RejectedBeforePipeline ==
    ( /\ request # None
      /\ response # None
      /\ request.app = "app_production"
      /\ request.endpoint = "generate_resume"
      /\ LacksRequiredField(request) ) =>
        /\ response.status = 400
        /\ response.error # ""
        /\ stages = <<>>
        /\ analyzed = <<>>

\* the names of the stages gone through, in order
StageNames == [i \in DOMAIN stages |-> stages[i].stage]

\* a request whose username and job description pass validate_request and
\* that names a profile source
ValidWithSource(req) ==
    /\ ~validate_github_username(Strip(req.github_username)).raised
    /\ ~validate_job_description(Strip(req.job_description)).raised
    /\ Strip(req.github_username) # <<>> \/ req.linkedin_file

\* C27: in the production generate-resume endpoint a valid request with a
\* profile source goes through scrape, analyze, rank, generate, compile in that
\* order; when no stage fails, or only the ranking, all of them run and the
\* answer is 200.
C27_ProductionPipeline ==
    ( /\ request # None
      /\ response # None
      /\ request.app = "app_production"
      /\ request.endpoint = "generate_resume"
      /\ ValidWithSource(request) ) =>
        LET order == StagesOf(Strip(request.github_username), request.linkedin_file)
        IN  /\ Len(stages) <= Len(order)
            /\ StageNames = SubSeq(order, 1, Len(stages))
            /\ (\A i \in DOMAIN stages :
                    stages[i].ok \/ stages[i].stage = "select_relevant_projects") =>
                  /\ StageNames = order
                  /\ response.status = 200

\* C28: when generate-resume succeeds for a request with a user_id and the
\* database is available, a Resume record of that user holding the permanent
\* PDF path exists by the time of the answer, and a JobApplication record
\* refers to it; no record belongs to a request without a user_id.
C28_RecordsForLoggedInUsers ==
    /\ ( /\ request # None
         /\ response # None
         /\ request.endpoint = "generate_resume"
         /\ response.status = 200
         /\ request.user_id # None
         /\ dbUp ) =>
            \E resume \in resumes :
                /\ resume.user_id = request.user_id
                /\ resume.pdf_path # <<>>
                /\ \E application \in applications :
                       /\ application.user_id = request.user_id
                       /\ application.resume_id = resume.id
    /\ \A resume \in resumes : resume.user_id # None
    /\ \A application \in applications : application.user_id # None

\* ------------------------------------------- configuration (C22)

ConfigClasses ==
    {"Config", "DevelopmentConfig", "StagingConfig", "ProductionConfig", "TestingConfig"}

\* the attributes that from_env decides on or that the tests look at
ConfigAttrs ==
    {"ENVIRONMENT", "DEBUG", "SECRET_KEY", "SESSION_COOKIE_SECURE", "RATE_LIMIT_ENABLED",
     "CACHE_ENABLED"}

\* the values of the enum Environment (config.py lines 14-20)
EnvironmentValues == { <<"d","e","v","e","l","o","p","m","e","n","t">>, <<"s","t","a","g","i","n","g">>, <<"p","r","o","d","u","c","t","i","o","n">>, <<"t","e","s","t","i","n","g">> }

\* config.py line 44
DevSecretKey == <<"d","e","v","-","s","e","c","r","e","t","-","k","e","y","-","c","h","a","n","g","e","-","i","n","-","p","r","o","d","u","c","t","i","o","n">>

\* a class body: the attributes it assigns, Missing for those it inherits
ClassBody(assigned) ==
    [a \in ConfigAttrs |-> IF a \in DOMAIN assigned THEN Some(assigned[a]) ELSE Missing]

\* the class statements of config.py, lines 23-93 and 151-195
ClassStatements ==
    [c \in ConfigClasses |->
        CASE c = "Config" ->
               ClassBody([ENVIRONMENT |-> <<"d","e","v","e","l","o","p","m","e","n","t">>, DEBUG |-> FALSE,
                          SECRET_KEY |-> DevSecretKey, SESSION_COOKIE_SECURE |-> FALSE,
                          RATE_LIMIT_ENABLED |-> TRUE, CACHE_ENABLED |-> TRUE])
          [] c = "DevelopmentConfig" ->
               ClassBody([DEBUG |-> TRUE, SESSION_COOKIE_SECURE |-> FALSE,
                          RATE_LIMIT_ENABLED |-> FALSE, CACHE_ENABLED |-> FALSE])
          [] c = "StagingConfig" ->
               ClassBody([ENVIRONMENT |-> <<"s","t","a","g","i","n","g">>, DEBUG |-> FALSE,
                          SESSION_COOKIE_SECURE |-> TRUE, RATE_LIMIT_ENABLED |-> TRUE,
                          CACHE_ENABLED |-> TRUE])
          [] c = "ProductionConfig" ->
               ClassBody([ENVIRONMENT |-> <<"p","r","o","d","u","c","t","i","o","n">>, DEBUG |-> FALSE,
                          SESSION_COOKIE_SECURE |-> TRUE, RATE_LIMIT_ENABLED |-> TRUE,
                          CACHE_ENABLED |-> TRUE])
          [] OTHER ->
               ClassBody([ENVIRONMENT |-> <<"t","e","s","t","i","n","g">>, DEBUG |-> TRUE,
                          CACHE_ENABLED |-> FALSE, RATE_LIMIT_ENABLED |-> FALSE])]

\* cls.attr: the attribute of the class, or the one it inherits from Config
GetAttr(attrs, cls, attr) ==
    IF attrs[cls][attr] # Missing THEN attrs[cls][attr].some
    ELSE attrs["Config"][attr].some

\* cls.attr = value
SetAttr(attrs, cls, attr, value) == [attrs EXCEPT ![cls][attr] = Some(value)]

\* os.getenv(name, default)
Getenv(env, name, default) ==
    IF env[name] # Missing THEN env[name].some ELSE default

\* Config.from_env up to the check of SECRET_KEY (lines 100-109)
FromEnvHead(attrs, cls, env) ==
    LET named == SetAttr(attrs, cls, "ENVIRONMENT",
                         Getenv(env, "ENVIRONMENT", <<"d","e","v","e","l","o","p","m","e","n","t">>))
        debug == SetAttr(named, cls, "DEBUG",
                         Lower(Getenv(env, "DEBUG", <<"f","a","l","s","e">>)) = <<"t","r","u","e">>)
    IN  IF Getenv(env, "SECRET_KEY", <<>>) # <<>>
        THEN SetAttr(debug, cls, "SECRET_KEY", Getenv(env, "SECRET_KEY", <<>>))
        ELSE debug

\* Config.from_env from line 117 on
FromEnvTail(attrs, cls, env) ==
    LET secure == SetAttr(attrs, cls, "SESSION_COOKIE_SECURE",
                          GetAttr(attrs, cls, "ENVIRONMENT") = <<"p","r","o","d","u","c","t","i","o","n">>)
    IN  SetAttr(secure, cls, "CACHE_ENABLED",
                Lower(Getenv(env, "CACHE_ENABLED", <<"t","r","u","e">>)) = <<"t","r","u","e">>)

\* Config.from_env (lines 95-148): the class attributes after the call, and
\* whether it raised ValueError on the way
from_env(attrs, cls, env) ==
    IF Getenv(env, "ENVIRONMENT", <<"d","e","v","e","l","o","p","m","e","n","t">>) \notin EnvironmentValues
    THEN [raised |-> TRUE, attrs |-> attrs, value |-> None]
    ELSE LET head == FromEnvHead(attrs, cls, env)
         IN  IF /\ GetAttr(head, cls, "ENVIRONMENT") = <<"p","r","o","d","u","c","t","i","o","n">>
                /\ GetAttr(head, cls, "SECRET_KEY") = DevSecretKey
             THEN [raised |-> TRUE, attrs |-> head, value |-> None]
             ELSE [raised |-> FALSE, attrs |-> FromEnvTail(head, cls, env),
                   value |-> Some(cls)]

\* config_map.get(env, DevelopmentConfig) (lines 202-211)
ConfigClassOf(env) ==
    LET name == Lower(Getenv(env, "ENVIRONMENT", <<"d","e","v","e","l","o","p","m","e","n","t">>))
    IN  CASE name = <<"s","t","a","g","i","n","g">> -> "StagingConfig"
          [] name = <<"p","r","o","d","u","c","t","i","o","n">> -> "ProductionConfig"
          [] name = <<"t","e","s","t","i","n","g">> -> "TestingConfig"
          [] OTHER -> "DevelopmentConfig"

\* get_config (lines 198-212)
get_config(attrs, env) == from_env(attrs, ConfigClassOf(env), env)

\* `config = get_config()`, the last statement of the module (line 241)
ImportConfig ==
    /\ configPc = "importing"
    /\ \E call \in {get_config(classAttrs, environ)} :
          /\ classAttrs' = call.attrs
          /\ config' = call.value
          /\ configPc' = IF call.raised THEN "failed" ELSE "loaded"
    /\ UNCHANGED environ
    /\ UNCHANGED exceptConfig

\* a later call of get_config (app_production.py line 54, the generators)
GetConfig ==
    /\ configPc = "loaded"
    /\ classAttrs' = get_config(classAttrs, environ).attrs
    /\ UNCHANGED <<environ, config, configPc>>
    /\ UNCHANGED exceptConfig

\* a call of from_env on any of the classes
FromEnv ==
    /\ configPc = "loaded"
    /\ \E cls \in ConfigClasses : classAttrs' = from_env(classAttrs, cls, environ).attrs
    /\ UNCHANGED <<environ, config, configPc>>
    /\ UNCHANGED exceptConfig

\* the environments of a process: ENVIRONMENT and SECRET_KEY set or not,
\* DEBUG and CACHE_ENABLED never set
Environs ==
    { [ENVIRONMENT |-> name, SECRET_KEY |-> key, DEBUG |-> Missing,
       CACHE_ENABLED |-> Missing] :
          name \in {Missing} \cup {Some(v) : v \in EnvironmentValues}
                   \cup {Some(<<"P","r","o","d","u","c","t","i","o","n">>), Some(<<"q","a">>)},
          key \in {Missing, Some(<<"s","3","c","r","e","t">>)} }

InitConfig ==
    /\ AnalyzerIdle
    /\ RankerIdle
    /\ NoThreads
    /\ ValidatorIdle
    /\ WebIdle
    /\ ScraperIdle
    /\ GeneratorIdle
    /\ AccountsIdle
    /\ CompilerIdle
    /\ environ \in Environs
    /\ classAttrs = ClassStatements
    /\ config = None
    /\ configPc = "importing"

NextConfig == ImportConfig \/ GetConfig \/ FromEnv

SpecConfig == InitConfig /\ [][NextConfig]_vars

\* C22: once the config module is loaded, and however often get_config and
\* from_env have run since, DevelopmentConfig has DEBUG on, rate limiting off
\* and caching off, and ProductionConfig has DEBUG off, rate limiting on and
\* secure session cookies.
C22_EnvironmentDefaults ==
    configPc = "loaded" =>
        /\ GetAttr(classAttrs, "DevelopmentConfig", "DEBUG") = TRUE
        /\ GetAttr(classAttrs, "DevelopmentConfig", "RATE_LIMIT_ENABLED") = FALSE
        /\ GetAttr(classAttrs, "DevelopmentConfig", "CACHE_ENABLED") = FALSE
        /\ GetAttr(classAttrs, "ProductionConfig", "DEBUG") = FALSE
        /\ GetAttr(classAttrs, "ProductionConfig", "RATE_LIMIT_ENABLED") = TRUE
        /\ GetAttr(classAttrs, "ProductionConfig", "SESSION_COOKIE_SECURE") = TRUE

\* ------------------------------------------- GitHub scraper (C23, C26)

\* config.py line 70
GITHUB_MAX_REPOS == 20

\* repositories.py line 217: ttl_hours of cache_github_profile
profile_ttl_hours == 1

\* a repository as the GitHub API lists it
ApiRepo(repo, fork) == [repo |-> repo, fork |-> fork]

\* what self.github.get_user(username) does: the user, or a GithubException of
\* the status and message given, or another exception
GetUserOutcomes ==
    {"user", "404", "403 API rate limit exceeded", "403", "500", "Exception"}

\* what GitHub does during one call: the outcome of get_user, the repos that
\* get_repos lists, after how many of them the listing raises and what
ApiWorld(user, listed, fails_after, failure) ==
    [user |-> user, listed |-> listed, fails_after |-> fails_after, failure |-> failure]

\* lines 87-105: the repos collected until the listing ends or raises, forks
\* left out
RECURSIVE Collected(_, _)
Collected(listed, upto) ==
    IF upto = 0 THEN <<>>
    ELSE Collected(listed, upto - 1)
         \o (IF listed[upto].fork THEN <<>> ELSE <<listed[upto].repo>>)

\* lines 114-122: the languages of the repos with their counts, most used
\* first, equal counts in order of first appearance
LanguagesOf(repo_list) ==
    LET langs == [k \in DOMAIN repo_list |-> repo_list[k].language.some]
        firsts == SelectSeq([k \in DOMAIN langs |->
                                IF langs[k] # <<>> /\ \A j \in 1..(k - 1) : langs[j] # langs[k]
                                THEN Some(langs[k]) ELSE None],
                            LAMBDA x : x # None)
        keyed == [k \in DOMAIN firsts |->
                    [score |-> Cardinality({j \in DOMAIN langs : langs[j] = firsts[k].some}),
                     stars |-> Some(0), repo |-> firsts[k].some]]
        sorted == SortedByKey(keyed)
    IN  [k \in DOMAIN sorted |-> <<sorted[k].repo, sorted[k].score>>]

\* lines 69-129: profile_data for the repos collected
ProfileData(name, repo_list) ==
    [username |-> name, repositories |-> repo_list,
     languages |-> LanguagesOf(repo_list),
     top_projects |-> PopularityFallback(repo_list).value]

\* lines 141-153: the exception that a GithubException is turned into
MapGithubException(outcome) ==
    CASE outcome = "404" -> RaisedAs("GitHubUserNotFound")
      [] outcome = "403 API rate limit exceeded" -> RaisedAs("GitHubRateLimitExceeded")
      [] OTHER -> RaisedAs("GitHubAPIError")

\* CacheRepository.get_cached_github_profile
GetCachedGithubProfile(collection, name, utcnow, connected) ==
    IF ~connected THEN RaisedAs("ConnectionFailure")
    ELSE LET found == {d \in collection : d.username = name /\ d.expires_at > utcnow}
         IN  Returned(IF found # {} THEN (CHOOSE d \in found : TRUE).profile_data ELSE None)

\* CacheRepository.cache_github_profile: the collection afterwards
CacheGithubProfile(collection, name, profile_data, utcnow, connected) ==
    IF ~connected THEN RaisedAs("ConnectionFailure")
    ELSE Returned({d \in collection : d.username # name}
                  \cup {[username |-> name, profile_data |-> profile_data,
                         expires_at |-> utcnow + profile_ttl_hours]})

\* a cache lookup inside a try of its own
GuardedLookup(lookup) == IF lookup.raised THEN Returned(None) ELSE lookup

\* line 64: the lookup as the code calls it, outside any try
BareLookup(lookup) == lookup

\* a store outside any try
BareStore(stored, collection) == stored

\* lines 133-137: the store inside try/except Exception
GuardedStore(stored, collection) ==
    IF stored.raised THEN Returned(collection) ELSE stored

\* lines 67-160 after a cache miss: what the call returns or raises
FetchProfile(name, world) ==
    IF world.user = "Exception" THEN RaisedAs("GitHubAPIError")
    ELSE IF world.user # "user" THEN MapGithubException(world.user)
    ELSE LET taken == SubSeq(world.listed, 1, Min(GITHUB_MAX_REPOS, Len(world.listed)))
             upto == IF world.failure = "none" THEN Len(taken)
                     ELSE Min(world.fails_after, Len(taken))
         IN  IF world.failure = "Exception" THEN RaisedAs("GitHubAPIError")
             ELSE Returned(ProfileData(name, Collected(taken, upto)))

\* GitHubScraper.scrape_profile: the outcome, the collection afterwards and
\* whether GitHub was asked
scrape_profile(name, world, collection, utcnow, atLookup, atStore) ==
    LET cached_data == BareLookup(GetCachedGithubProfile(collection, name, utcnow, atLookup))
    IN  IF cached_data.raised
        THEN [out |-> cached_data, collection |-> collection, asked |-> FALSE]
        ELSE IF cached_data.value # None
        THEN [out |-> cached_data, collection |-> collection, asked |-> FALSE]
        ELSE LET fetched == FetchProfile(name, world)
             IN  IF fetched.raised
                 THEN [out |-> fetched, collection |-> collection, asked |-> TRUE]
                 ELSE LET stored == GuardedStore(
                                        CacheGithubProfile(collection, name, fetched.value,
                                                           utcnow, atStore),
                                        collection)
                      IN  IF stored.raised
                          THEN [out |-> stored, collection |-> collection, asked |-> TRUE]
                          ELSE [out |-> fetched, collection |-> stored.value, asked |-> TRUE]

\* how many repos GitHub lists for a user
MaxListed == 2

\* the username scraped
ScrapeNames == { <<"a","n","n">> }

\* the repos GitHub lists, one of them a fork
ListedRepos ==
    { ApiRepo(Repo(<<"a","p","i">>, <<>>, <<"G","o">>, <<>>, 5), FALSE),
      ApiRepo(Repo(<<"w","e","b">>, <<>>, <<"P","y","t","h","o","n">>, <<>>, 9), FALSE),
      ApiRepo(Repo(<<"f","o","r","k">>, <<>>, <<"C">>, <<>>, 50), TRUE) }

Listings == UNION {[1..n -> ListedRepos] : n \in 0..MaxListed}

\* what GitHub can do during a call
ApiWorlds ==
    {ApiWorld(user, <<>>, 0, "none") : user \in GetUserOutcomes \ {"user"}}
    \cup {ApiWorld("user", listed, 0, "none") : listed \in Listings}
    \cup UNION {{ApiWorld("user", listed, k, failure) :
                    k \in 0..Len(listed), failure \in {"GithubException", "Exception"}} :
                listed \in Listings}

\* one call of scrape_profile, from the lookup to the return; the database
\* may go down or come back between the lookup and the store
ScrapeProfile ==
    /\ scrapeOut = None
    /\ \E name \in ScrapeNames, world \in ApiWorlds, atStore \in BOOLEAN :
          LET call == scrape_profile(name, world, githubCache, now, dbUp, atStore)
          IN  /\ scrapeWorld' = [username |-> name, api |-> world,
                                 atLookup |-> dbUp, atStore |-> atStore]
              /\ scrapeOut' = [out |-> call.out, asked |-> call.asked]
              /\ githubCache' = call.collection
              /\ dbUp' = IF call.asked /\ ~call.out.raised THEN atStore ELSE dbUp
    /\ UNCHANGED <<text, edits, pc, result, cache, now, cacheLog>>
    /\ UNCHANGED exceptScraper

\* the caller takes the outcome
NewScrape ==
    /\ scrapeOut # None
    /\ scrapeWorld' = None
    /\ scrapeOut' = None
    /\ UNCHANGED <<githubCache, analyzerVars>>
    /\ UNCHANGED exceptScraper

InitScraper ==
    /\ AnalyzerIdle
    /\ RankerIdle
    /\ NoThreads
    /\ ValidatorIdle
    /\ WebIdle
    /\ ServicesIdle

NextScraper ==
    \/ ScrapeProfile
    \/ NewScrape
    \/ Tick
    \/ DbFail
    \/ DbRecover

SpecScraper == InitScraper /\ [][NextScraper]_vars

\* the three exceptions the docstring of scrape_profile names
ScraperExceptions ==
    {"GitHubUserNotFound", "GitHubRateLimitExceeded", "GitHubAPIError"}

\* the call ended and GitHub answered the user lookup and the listing without
\* an exception that is no GithubException
GithubServes ==
    /\ scrapeOut # None
    /\ scrapeWorld.api.user = "user"
    /\ scrapeWorld.api.failure # "Exception"

\* the profile with the repos that the listing gave before it ended or raised
ProfileExpected ==
    FetchProfile(scrapeWorld.username, scrapeWorld.api)

\* C26: when the lookup in the profile cache raised, or the lookup missed and
\* the store raised, and GitHub serves the profile, scrape_profile returns
\* the profile fetched from GitHub.
C26_CacheFailureContinues ==
    (GithubServes /\ (~scrapeWorld.atLookup \/ (scrapeOut.asked /\ ~scrapeWorld.atStore)))
        => scrapeOut.out = ProfileExpected

\* C23: scrape_profile raises only the three exceptions of its docstring; when
\* it asked GitHub, a 404 of the user lookup gives GitHubUserNotFound, a 403
\* that reports the rate limit gives GitHubRateLimitExceeded, every other
\* failure gives GitHubAPIError, and a GithubException while listing gives
\* the profile with the repos collected until then.
C23_ScrapeErrorMapping ==
    scrapeOut # None =>
        /\ scrapeOut.out.raised => scrapeOut.out.exc \in ScraperExceptions
        /\ scrapeOut.asked =>
              LET api == scrapeWorld.api
              IN  /\ api.user = "404" => scrapeOut.out = RaisedAs("GitHubUserNotFound")
                  /\ api.user = "403 API rate limit exceeded" =>
                        scrapeOut.out = RaisedAs("GitHubRateLimitExceeded")
                  /\ (api.user \in {"403", "500", "Exception"} \/ api.failure = "Exception") =>
                        scrapeOut.out = RaisedAs("GitHubAPIError")
                  /\ (api.user = "user" /\ api.failure = "GithubException") =>
                        scrapeOut.out = Returned(ProfileData(scrapeWorld.username,
                                                  Collected(api.listed, api.fails_after)))

\* --------------------------------------------- experience ranges (C24)

\* the range phrasings "N-M years [of] experience" of the text
RangePhrasings(s) ==
    UNION {{Slice(s, i, e) : e \in PhrasingEnds(s, 2, i)} : i \in PhrasingStarts(s, 2)}

\* C24: when the lowercased text holds a numeric range "N-M years [of]
\* experience", the experience summary is a full range phrasing of the text.
C24_RangeReportedWhole ==
    (Done /\ RangePhrasings(Lower(text)) # {})
        => result.value.experience_required \in RangePhrasings(Lower(text))

\* -------------------------------------------- resume generator (C25)

\* resume_generator.py line 301: the slice [:15] of the skills
MaxSkillsListed == 15

\* line 366: the slice [:6] of the projects
MaxProjectsListed == 6

\* profile_data as the handlers build it
Profile(name, languages, top_projects, linkedin_skills) ==
    [github |-> [username |-> name, languages |-> languages,
                 top_projects |-> top_projects],
     linkedin |-> [skills |-> linkedin_skills]]

\* job_requirements: the skills by category, or a dict without "skills"
Requirements(skills_by_category) == [skills |-> skills_by_category]

\* the {} that _parse_gemini_response hands to the basic resume
EmptyRequirements == Requirements(Missing)

\* list(set(xs)): the distinct items of xs in the order of the hash table
ListOfSet(xs, hash_order) ==
    SelectSeq(hash_order, LAMBDA s : \E k \in DOMAIN xs : xs[k] = s)

\* lines 280-283: the languages of GitHub and the skills of LinkedIn
AllCandidateSkills(profile_data, hash_order) ==
    LET github_languages ==
            [k \in DOMAIN profile_data.github.languages |->
                profile_data.github.languages[k][1]]
    IN  ListOfSet(github_languages \o profile_data.linkedin.skills, hash_order)

\* lines 286-289 and [js.lower() for js in job_skills_list]
JobSkillsLower(job_requirements) ==
    LET job_skills_dict == IF job_requirements.skills = Missing THEN Dict(<<>>)
                      ELSE job_requirements.skills
    IN  UNION {{Lower(entry.skills.list[k]) : k \in DOMAIN entry.skills.list} :
               entry \in Range(job_skills_dict.dict)}

\* lines 292-301: the matched skills first, then the others, fifteen at most
FinalSkills(profile_data, job_requirements, hash_order) ==
    LET all_candidate_skills == AllCandidateSkills(profile_data, hash_order)
        wanted == JobSkillsLower(job_requirements)
        highlighted_skills == SelectSeq(all_candidate_skills, LAMBDA s : Lower(s) \in wanted)
        others == SelectSeq(all_candidate_skills, LAMBDA s : Lower(s) \notin wanted)
        mix == highlighted_skills \o others
    IN  SubSeq(mix, 1, Min(MaxSkillsListed, Len(mix)))

\* github.com/<username>, empty without a username
GithubUrl(profile_data) ==
    IF profile_data.github.username = <<>> THEN <<>>
    ELSE <<"g","i","t","h","u","b",".","c","o","m","/">> \o profile_data.github.username

\* lines 323-331 and 366: the projects of GitHub by name
ProjectsListed(profile_data) ==
    LET top == profile_data.github.top_projects
        names == [k \in DOMAIN top |-> top[k].name.some]
    IN  SubSeq(names, 1, Min(MaxProjectsListed, Len(names)))

\* ResumeGenerator._generate_basic_resume
generate_basic_resume(profile_data, job_requirements, hash_order) ==
    [github_url |-> GithubUrl(profile_data),
     skills |-> FinalSkills(profile_data, job_requirements, hash_order),
     projects |-> ProjectsListed(profile_data)]

\* response_text.find("{"), counted from 1; 0 when there is none
FindOpen(response_text) ==
    LET at == {k \in DOMAIN response_text : response_text[k] = "{"}
    IN  IF at = {} THEN 0 ELSE CHOOSE k \in at : \A j \in at : k <= j

\* response_text.rfind("}") + 1: the position of the last one; 0 when none
RfindClose(response_text) ==
    LET at == {k \in DOMAIN response_text : response_text[k] = "}"}
    IN  IF at = {} THEN 0 ELSE CHOOSE k \in at : \A j \in at : k >= j

\* json.loads on the texts that are JSON objects
JsonObjects ==
    { [text |-> <<"{","}">>, value |-> [summary |-> <<>>]],
      [text |-> <<"{","\"","s","u","m","m","a","r","y","\"",":"," ","\"","x","\"","}">>, value |-> [summary |-> <<"x">>]] }

\* json.loads(json_text): the object, or None where it raises
JsonLoads(json_text) ==
    IF \E o \in JsonObjects : o.text = json_text
    THEN Some((CHOOSE o \in JsonObjects : o.text = json_text).value)
    ELSE None

\* lines 237-244: the object in the response, None when there is none;
\* response.text is None when Gemini gave no text, and .find raises then
ParsedObject(response_text) ==
    IF response_text = None THEN None
    ELSE LET json_start == FindOpen(response_text.some)
             json_end == RfindClose(response_text.some)
         IN  IF json_start >= 1 /\ json_end >= json_start
             THEN JsonLoads(SubSeq(response_text.some, json_start, json_end))
             ELSE None

\* ResumeGenerator._parse_gemini_response
parse_gemini_response(response_text, profile_data, hash_order) ==
    LET parsed == ParsedObject(response_text)
    IN  IF parsed # None
        THEN [parsed |-> parsed.some, github_url |-> GithubUrl(profile_data)]
        ELSE generate_basic_resume(profile_data, EmptyRequirements, hash_order)

\* what the Gemini client does: there is none, generate_content raises, or
\* it answers with a text or without one
Gemini(client, raises, response_text) ==
    [client |-> client, raises |-> raises, text |-> response_text]

\* ResumeGenerator.generate
generate(profile_data, job_requirements, hash_order, gemini) ==
    IF ~gemini.client
    THEN Returned(generate_basic_resume(profile_data, job_requirements, hash_order))
    ELSE IF gemini.raises
    THEN Returned(generate_basic_resume(profile_data, job_requirements, hash_order))
    ELSE Returned(parse_gemini_response(gemini.text, profile_data, hash_order))

\* the skills a candidate can have
CandidateSkills == { <<"G","o">>, <<"P","y","t","h","o","n">>, <<"C">> }

\* the orders in which a set of these skills can be listed
HashOrders ==
    {o \in [1..Cardinality(CandidateSkills) -> CandidateSkills] :
        \A i, j \in DOMAIN o : i # j => o[i] # o[j]}

\* the profiles that generate is called with
GeneratorProfiles ==
    {Profile(<<"a","n","n">>, languages, top_projects, linkedin_skills) :
        languages \in { <<>>, << <<<<"G","o">>, 1>> >>, << <<<<"P","y","t","h","o","n">>, 2>>, <<<<"G","o">>, 1>> >> },
        top_projects \in { <<>>, <<Repo(<<"a","p","i">>, <<>>, <<"G","o">>, <<>>, 5)>> },
        linkedin_skills \in { <<>>, <<<<"C">>>>, <<<<"P","y","t","h","o","n">>, <<"C">>>> }}

\* the job requirements that generate is called with
GeneratorRequirements ==
    { Requirements(Dict(<<>>)),
      Requirements(Dict(<<[category |-> "languages", skills |-> List(<<<<"g","o">>>>)]>>)),
      Requirements(Dict(<<[category |-> "languages", skills |-> List(<<<<"p","y","t","h","o","n">>>>)],
                          [category |-> "tools", skills |-> List(<<<<"c">>>>)]>>)) }

\* the texts Gemini answers with
ResponseTexts ==
    { <<>>, <<"s","o","r","r","y">>, <<"}","{">>, <<"{","o","o","p","s","}">>, <<"{","}">>,
      <<"H","e","r","e",":","\n","{","\"","s","u","m","m","a","r","y","\"",":"," ","\"","x","\"","}","\n","D","o","n","e",".">> }

\* what Gemini can do during a call
Geminis ==
    {Gemini(FALSE, FALSE, None), Gemini(TRUE, TRUE, None), Gemini(TRUE, FALSE, None)}
    \cup {Gemini(TRUE, FALSE, Some(t)) : t \in ResponseTexts}

\* one call of generate
Generate ==
    /\ genOut = None
    /\ \E profile_data \in GeneratorProfiles, job_requirements \in GeneratorRequirements,
          hash_order \in HashOrders, gemini \in Geminis :
          /\ genCall' = [profile_data |-> profile_data,
                         job_requirements |-> job_requirements,
                         hash_order |-> hash_order, gemini |-> gemini]
          /\ genOut' = generate(profile_data, job_requirements, hash_order, gemini)
    /\ UNCHANGED exceptGenerator

\* the caller takes the resume
NewGenerate ==
    /\ genOut # None
    /\ genCall' = None
    /\ genOut' = None
    /\ UNCHANGED exceptGenerator

InitGenerator ==
    /\ AnalyzerIdle
    /\ RankerIdle
    /\ NoThreads
    /\ ValidatorIdle
    /\ WebIdle
    /\ ServicesIdle

NextGenerator ==
    \/ Generate
    \/ NewGenerate

SpecGenerator == InitGenerator /\ [][NextGenerator]_vars

\* enrichment was unavailable or failed in the call: no client, the API call
\* raised, or the response holds no JSON object that parses
EnrichmentFailed ==
    /\ genOut # None
    /\ \/ ~genCall.gemini.client
       \/ genCall.gemini.raises
       \/ ParsedObject(genCall.gemini.text) = None

\* C25: whenever enrichment is unavailable or fails, generate returns the
\* basic resume of the same profile data and the same job requirements, and
\* does not raise.
C25_FallbackIsBasicResume ==
    EnrichmentFailed =>
        genOut = Returned(generate_basic_resume(genCall.profile_data,
                                                genCall.job_requirements,
                                                genCall.hash_order))

\* --------------------------------------- concurrent registration (C29)

\* a register request that a thread starts
RegisterThread(data) ==
    [kind |-> "register", pc |-> "by_email", arg |-> data,
     computed |-> None, existing |-> None, out |-> None]

\* request.json of a register request
RegisterData(email, name, password) ==
    [email |-> email, username |-> name, password |-> password]

\* User.objects(email=email).first() and User.objects(username=username).first()
FirstUser(collection, field, value, connected) ==
    IF ~connected THEN RaisedAs("ConnectionFailure")
    ELSE LET found == {u \in collection : u[field] = value}
         IN  Returned(IF found # {} THEN Some(CHOOSE u \in found : TRUE) ELSE None)

\* user.save() of a new user: the unique indexes on email and on username
\* refuse a second document with the same value (NotUniqueError)
SaveUser(collection, user, connected) ==
    IF ~connected THEN RaisedAs("ConnectionFailure")
    ELSE IF \E u \in collection : u.email = user.email \/ u.username = user.username
    THEN RaisedAs("NotUniqueError")
    ELSE Returned(collection \cup {user})

\* UserRepository.create_user
create_user(collection, data, connected) ==
    SaveUser(collection, [email |-> data.email, username |-> data.username], connected)

\* lines 699-701: except Exception
RegistrationFailed == Response(500, "INTERNAL_ERROR")

\* lines 671-684 of register in thread t: the fields, then the lookup by email
RegisterByEmail(t) ==
    /\ threads[t].kind = "register"
    /\ threads[t].pc = "by_email"
    /\ LET data == threads[t].arg
           found == FirstUser(users, "email", data.email, dbUp)
       IN  IF data.email = "" \/ data.username = "" \/ data.password = ""
           THEN Finish(t, Response(400, "VALIDATION_ERROR"))
           ELSE IF found.raised THEN Finish(t, RegistrationFailed)
           ELSE IF found.value # None THEN Finish(t, Response(409, "CONFLICT"))
           ELSE threads' = [threads EXCEPT ![t].pc = "by_username"]
    /\ UNCHANGED users
    /\ UNCHANGED exceptAccounts

\* lines 686-687 in thread t: the lookup by username
RegisterByUsername(t) ==
    /\ threads[t].kind = "register"
    /\ threads[t].pc = "by_username"
    /\ LET found == FirstUser(users, "username", threads[t].arg.username, dbUp)
       IN  IF found.raised THEN Finish(t, RegistrationFailed)
           ELSE IF found.value # None THEN Finish(t, Response(409, "CONFLICT"))
           ELSE threads' = [threads EXCEPT ![t].pc = "create"]
    /\ UNCHANGED users
    /\ UNCHANGED exceptAccounts

\* lines 689-698 in thread t: create_user and the answer
RegisterCreate(t) ==
    /\ threads[t].kind = "register"
    /\ threads[t].pc = "create"
    /\ LET created == create_user(users, threads[t].arg, dbUp)
       IN  IF created.raised
           THEN Finish(t, RegistrationFailed) /\ users' = users
           ELSE Finish(t, Response(201, "")) /\ users' = created.value
    /\ UNCHANGED exceptAccounts

\* the next request of a thread that has answered
RegisterNewCall(t, Calls) ==
    /\ threads[t].pc = "done"
    /\ \E call \in Calls : threads' = [threads EXCEPT ![t] = call]
    /\ UNCHANGED users
    /\ UNCHANGED exceptAccounts

\* the register requests posted
RegisterCalls ==
    {RegisterThread(RegisterData(email, name, "pw")) :
        email \in {"a@x.io", "b@x.io"}, name \in {"ann", "bob"}}
    \cup {RegisterThread(RegisterData("", "ann", "pw"))}

InitRegister ==
    /\ threads \in [1..NumThreads -> RegisterCalls]
    /\ text = <<>>
    /\ edits = 0
    /\ pc = "ready"
    /\ result = None
    /\ cache = {}
    /\ now = 0
    /\ dbUp = TRUE
    /\ cacheLog = ""
    /\ RankerIdle
    /\ ValidatorIdle
    /\ WebIdle
    /\ ServicesIdle

NextRegister ==
    \E t \in DOMAIN threads :
        \/ RegisterByEmail(t)
        \/ RegisterByUsername(t)
        \/ RegisterCreate(t)
        \/ RegisterNewCall(t, RegisterCalls)

SpecRegister == InitRegister /\ [][NextRegister]_vars

\* the requests of two threads ask for the same email or the same username
SameAccount(t, u) ==
    \/ threads[t].arg.email = threads[u].arg.email
    \/ threads[t].arg.username = threads[u].arg.username

\* the request of thread t has every field
Complete(t) ==
    /\ threads[t].arg.email # ""
    /\ threads[t].arg.username # ""
    /\ threads[t].arg.password # ""

\* C29: no two stored users share an email or a username; of the requests
\* answered that ask for the same email or username at most one is answered
\* 201, and every complete request answered is answered 201 or 409.
C29_RegistrationUnderRace ==
    /\ \A u, v \in users :
          u # v => u.email # v.email /\ u.username # v.username
    /\ \A t, u \in DOMAIN threads :
          (t # u /\ threads[t].pc = "done" /\ threads[u].pc = "done"
             /\ SameAccount(t, u) /\ threads[t].out.status = 201)
          => threads[u].out.status # 201 \/ ~Complete(u)
    /\ \A t \in DOMAIN threads :
          (threads[t].pc = "done" /\ Complete(t))
          => threads[t].out.status \in {201, 409}

\* --------------------------------------- concurrent compile calls (C30)

\* a call of LaTeXCompiler.compile that a thread starts
CompileThread(resume_content) ==
    [kind |-> "compile", pc |-> "stamp", arg |-> resume_content,
     computed |-> None, existing |-> None, out |-> None]

\* datetime.now(): the second of the clock and a part of a second
DatetimeNow(micro) == [second |-> now, microsecond |-> micro]

\* strftime("%Y%m%d_%H%M%S"): the date and the time to the second
Strftime(instant) == [stamp |-> instant.second]

\* os.path.join(self.temp_dir, f"resume_{timestamp}.<ext>")
ResumePath(timestamp, ext) == [dir |-> "temp", resume |-> timestamp, ext |-> ext]

\* pdf_file.replace(".pdf", ".txt")
TxtOf(pdf_file) == [pdf_file EXCEPT !.ext = IF @ = "pdf" THEN "txt" ELSE @]

\* what thread t writes: the resume that the written text renders
Written(t, resume_content) == [by |-> t, resume |-> resume_content]

\* open(path, "w") ... f.write(data)
WriteFile(fs, path, data) == [p \in DOMAIN fs \cup {path} |-> IF p = path THEN data ELSE fs[p]]

\* what subprocess.run of pdflatex does when the program is there: it writes
\* the PDF, it ends without one, or it runs into the timeout
PdflatexOutcomes == {"pdf", "no pdf", "timeout"}

\* lines 29-34 in thread t: the LaTeX code and the names of the files
CompileStamp(t) ==
    /\ threads[t].kind = "compile"
    /\ threads[t].pc = "stamp"
    /\ \E micro \in {0, 1} :
          threads' = [threads EXCEPT
                         ![t].pc = "write",
                         ![t].computed = Some(Strftime(DatetimeNow(micro)))]
    /\ UNCHANGED <<files, pdflatex>>
    /\ UNCHANGED exceptCompiler

\* lines 36-37 in thread t: the .tex file is written
CompileWrite(t) ==
    /\ threads[t].kind = "compile"
    /\ threads[t].pc = "write"
    /\ files' = WriteFile(files, ResumePath(threads[t].computed.some, "tex"),
                          Written(t, threads[t].arg))
    /\ threads' = [threads EXCEPT ![t].pc = "pdflatex"]
    /\ UNCHANGED pdflatex
    /\ UNCHANGED exceptCompiler

\* lines 40-57 and 67-78 in thread t: pdflatex reads the .tex file that is
\* there now and writes the .pdf file; without the program the text version
\* is written and returned
CompileRun(t) ==
    /\ threads[t].kind = "compile"
    /\ threads[t].pc = "pdflatex"
    /\ LET tex_file == ResumePath(threads[t].computed.some, "tex")
           pdf_file == ResumePath(threads[t].computed.some, "pdf")
       IN  IF ~pdflatex
           THEN /\ files' = WriteFile(files, TxtOf(pdf_file), Written(t, threads[t].arg))
                /\ Finish(t, Returned(TxtOf(pdf_file)))
           ELSE \E outcome \in PdflatexOutcomes :
                   CASE outcome = "pdf" ->
                           /\ files' = WriteFile(files, pdf_file,
                                                 Written(t, files[tex_file].resume))
                           /\ threads' = [threads EXCEPT ![t].pc = "exists"]
                     [] outcome = "no pdf" ->
                           /\ files' = files
                           /\ threads' = [threads EXCEPT ![t].pc = "exists"]
                     [] outcome = "timeout" ->
                           /\ files' = files
                           /\ Finish(t, RaisedAs("TimeoutExpired"))
    /\ UNCHANGED pdflatex
    /\ UNCHANGED exceptCompiler

\* lines 59-64 in thread t: the path when the file is there
CompileExists(t) ==
    /\ threads[t].kind = "compile"
    /\ threads[t].pc = "exists"
    /\ LET pdf_file == ResumePath(threads[t].computed.some, "pdf")
       IN  IF pdf_file \in DOMAIN files
           THEN Finish(t, Returned(pdf_file))
           ELSE Finish(t, RaisedAs("Exception"))
    /\ UNCHANGED <<files, pdflatex>>
    /\ UNCHANGED exceptCompiler

\* the next call of a thread whose call has ended
CompileNewCall(t, Calls) ==
    /\ threads[t].pc = "done"
    /\ \E call \in Calls : threads' = [threads EXCEPT ![t] = call]
    /\ UNCHANGED <<files, pdflatex>>
    /\ UNCHANGED exceptCompiler

\* how many seconds pass while the calls run
MaxSeconds == 1

\* a second passes
NextSecond ==
    /\ now < MaxSeconds
    /\ now' = now + 1
    /\ UNCHANGED <<text, edits, pc, result, cache, dbUp, cacheLog>>
    /\ UNCHANGED <<rankerVars, threads, validatorVars, webVars, serviceVars>>

\* the resumes compiled
CompileCalls == {CompileThread(r) : r \in {"resume of ann", "resume of bob"}}

InitCompile ==
    /\ threads \in [1..NumThreads -> CompileCalls]
    /\ text = <<>>
    /\ edits = 0
    /\ pc = "ready"
    /\ result = None
    /\ cache = {}
    /\ now = 0
    /\ dbUp = TRUE
    /\ cacheLog = ""
    /\ RankerIdle
    /\ ValidatorIdle
    /\ WebIdle
    /\ ConfigIdle
    /\ ScraperIdle
    /\ GeneratorIdle
    /\ AccountsIdle
    /\ files = <<>>
    /\ pdflatex \in BOOLEAN

NextCompile ==
    \/ \E t \in DOMAIN threads :
          \/ CompileStamp(t)
          \/ CompileWrite(t)
          \/ CompileRun(t)
          \/ CompileExists(t)
          \/ CompileNewCall(t, CompileCalls)
    \/ NextSecond

SpecCompile == InitCompile /\ [][NextCompile]_vars

\* C30: the path that a call of compile returned names a file that this
\* call wrote and no other call has written since.
C30_OutputFileIsOwn ==
    \A t \in DOMAIN threads :
        (threads[t].pc = "done" /\ ~threads[t].out.raised)
            => files[threads[t].out.value].by = t
====
